---- MODULE Spec2Model ----
(***************************************************************************)
(* Anava web installer: the provisioning orchestrator                      *)
(* (AnavaGCPInstaller.install), its resumable state store                  *)
(* (InstallationStateManager over SecureStorage) and the resilient call    *)
(* client (AnavaGCPInstaller.gcpApiCall).                                  *)
(*                                                                         *)
(* Eleven specifications share the module:                                    *)
(*   SpecCall    - one gcpApiCall, one action per attempt of its loop;     *)
(*   SpecInstall - runs of install() against one browser's localStorage;   *)
(*   SpecGrant   - the role grants of two installers on one project;       *)
(*   SpecPrereq  - one checkPrerequisites, one action per read;            *)
(*   SpecPayload - the remediation list from the throw to the page;        *)
(*   SpecCreate  - the creation calls of one provisioning step;            *)
(*   SpecRerun   - steps invoked again on resources that exist;            *)
(*   SpecPoll    - one polling loop, one action per status read;           *)
(*   SpecEnable  - validateProject, then the calls of enableAPIs;          *)
(*   SpecToken   - the token map and the requests of one API client;       *)
(*   SpecKeys    - one generateAPIKeys, one action per provider answer.    *)
(* Each leaves the others' variables unchanged.                            *)
(***************************************************************************)
EXTENDS Integers, Sequences, FiniteSets, TLC

VARIABLES
    \* ---- gcpApiCall (src/lib/gcp-installer.ts:404-459) ----
    retries,        \* parameter `retries`
    timeoutMs,      \* parameter `timeoutMs`, reassigned at line 448
    attempt,        \* loop variable `attempt`
    callPc,         \* "fetch" | "returned" | "thrown"
    responses,      \* what fetch answered, one entry per attempt made
    delays,         \* the setTimeout delays awaited between attempts, in order
    deadlines,      \* the deadline each attempt was armed with (line 414)
    callResult,     \* the payload returned, or the error thrown
    \* ---- the browser and the clock ----
    localStorage,   \* the item stored under STORAGE_KEY, or Null
    now,            \* the wall clock (new Date()), in hours
    ticks,          \* how many times the clock has been advanced
    runs,           \* how many times install() has been called
    \* ---- one AnavaGCPInstaller and its install() (gcp-installer.ts:74-175) ----
    pc,             \* "idle" | "loop" | "running" | "failed" | "done"
    config,         \* this.config: projectId, projectNumber
    savedState,     \* const savedState (line 76)
    stepIdx,        \* position of the for loop of line 112 in `steps`
    totalProgress,  \* let totalProgress (line 108)
    results,        \* const results (line 109)
    skippedSteps,   \* const skippedSteps (line 110)
    outcome,        \* what install() returned, or the Error it threw
    \* ---- observations ----
    invoked,        \* the steps whose fn was called by this run, in call order
    finished,       \* the steps whose fn returned in this run, in order
    progress,       \* the percentages passed to onProgress by this run
    updates,        \* the step names passed to updateStep by this run
    answers,        \* per step, how the provider answered when the step last returned
    prev,           \* what the last call of install() found: whose item was
                    \* stored and when it was written; the time of the call;
                    \* how the run before it
                    \* ended, for which project, and, if it failed, the steps
                    \* that had returned in it
    \* ---- IAM policies at the provider, and the grants under way ----
    projectPolicy,  \* the project's policy document (its bindings)
    vertexSaPolicy, \* the policy document of the Vertex AI service account
    grantPc,        \* per installer: "idle" | "rolesFetched" | "rolesWritten"
                    \*   | "gatewayFetched" | "done" | "failed"
    grantArg,       \* per installer: the serviceAccounts argument of
                    \*   grantIAMRoles, this.config.projectNumber
    grantFetched,   \* per installer: const policy, as getIamPolicy returned it
    grantWritten,   \* per installer: the document sent with setIamPolicy and
    functionPolicy, \* the IAM policy of the function deployFunctions created
    functionGrant,  \* the setIamPolicy call made on that function, if any
                    \*   the grants it was to carry
    \* ---- checkPrerequisites (gcp-installer.ts:247-402) ----
    prereqPc,       \* "firebase" | "storage" | "firestore" | "auth" | "users"
                    \*   | "decide" | "returned" | "thrown"
    prereqProject,  \* this.config.projectId
    prerequisites,  \* const prerequisites (line 250)
    prereqReads,    \* the reads made so far and how each was answered
    prereqOutcome,  \* what checkPrerequisites returned, or the Error it threw
    \* ---- the remediation list on its way to the page ----
    payloadPc,      \* "checked" | "thrown" | "rejected" | "error" | "rendered"
    payloadSteps,   \* const missingSteps (gcp-installer.ts:334)
    thrownMessage,  \* the message of the Error in flight
    errorState,     \* the React state `error` (pages/index.tsx:252)
    decodedSteps,   \* const missingSteps (pages/index.tsx:793)
    \* ---- one creation step and its calls ----
    crStep,         \* the step function
    crPc,           \* "check" | "create" | "details" | "proceeds" | "thrown"
    crIdx,          \* position of the step's loop in the resources it creates
    crRetries,      \* apiRetryCount (line 1180), createRetries (line 1220)
    crCalls,        \* the calls made so far and how each was answered
    crError,        \* the message of the Error thrown
    \* ---- steps invoked again ----
    provider,       \* the project at the provider: accounts, functions,
                    \*   policy, gateway, keys
    returned,       \* per step, what each invocation returned, in order
    existedBefore,  \* per step and invocation: its resources existed already
    \* ---- one polling loop of the installer ----
    poller,         \* which loop runs
    checks,         \* the status reads made so far
    elapsed,        \* Date.now() - startTime, in milliseconds
    exhausted,      \* the loop ended because its budget was spent
    pollPc,         \* "polling" | "final" | "reread" | "returned" | "thrown"
    pollOutcome,    \* what the loop's caller gets
    reported,       \* the percentages given to onProgress since the step began
    \* ---- validateProject, then enableAPIs, of one install() ----
    earlyPc,        \* "project" | "billing" | "validated" | "enabling" | "agent"
                    \*   | "enabled" | "failed"
    earlyProjectId, \* this.config.projectId
    projectRead,    \* what the read of the project answered
    billingRead,    \* what the read of the billing info answered
    enablePromises, \* per API, the state of its gcpApiCall promise
    settledOrder,   \* the APIs in the order in which their calls settled
    earlyOutcome,   \* what the last step returned, or the Error of install()
    \* ---- SecureTokenManager and one SecureApiClient (secure-storage.ts:153-231) ----
    tokenStore,     \* the static Map tokenStore: token id -> token
    storeCalls,     \* the storeToken calls made: the token given, the id
                    \*   returned, and whether the id was cleared since
    clockMs,        \* Date.now()
    requests,       \* the fetch calls issued by makeRequest, in order
    requestOutcome, \* how the last makeRequest ended, whether its id was in
                    \*   the map and how many requests had been issued before
    \* ---- one call of generateAPIKeys (gcp-installer.ts:1659-1983) ----
    keyPc,          \* "lookup" | "existing" | "create" | "poll" | "returned"
    regenerate,     \* the argument forceRegenerate
    lookups,        \* the reads of the API made by the managed-service loop
    lookupRetries,  \* the loop's local variable retries
    managedServiceName, \* the loop's local variable of that name
    pollAttempts,   \* the local variable of the operation poll
    keyReturn       \* what the call returned

callVars == <<retries, timeoutMs, attempt, callPc, responses, delays, deadlines, callResult>>

storeVars == <<localStorage, now, ticks>>

runVars == <<runs, pc, config, savedState, stepIdx, totalProgress, results,
             skippedSteps, outcome>>

obsVars == <<invoked, finished, progress, updates, answers, prev>>

installVars == <<storeVars, runVars, obsVars>>

policyVars == <<projectPolicy, vertexSaPolicy, grantPc, grantArg, grantFetched,
                grantWritten, functionPolicy, functionGrant>>

\* The variables of the grants while another part is examined on its own.
PolicyParked ==
    /\ projectPolicy = <<>> /\ vertexSaPolicy = <<>>
    /\ grantPc = <<>> /\ grantArg = <<>> /\ grantFetched = <<>>
    /\ grantWritten = <<>>
    /\ functionPolicy = <<>> /\ functionGrant = <<>>

prereqVars == <<prereqPc, prereqProject, prerequisites, prereqReads, prereqOutcome>>

PrereqParked ==
    /\ prereqPc = <<>> /\ prereqProject = <<>> /\ prerequisites = <<>>
    /\ prereqReads = <<>> /\ prereqOutcome = <<>>

payloadVars == <<payloadPc, payloadSteps, thrownMessage, errorState, decodedSteps>>

PayloadParked ==
    /\ payloadPc = <<>> /\ payloadSteps = <<>> /\ thrownMessage = <<>>
    /\ errorState = <<>> /\ decodedSteps = <<>>

createVars == <<crStep, crPc, crIdx, crRetries, crCalls, crError>>

CreateParked ==
    /\ crStep = <<>> /\ crPc = <<>> /\ crIdx = <<>> /\ crRetries = <<>>
    /\ crCalls = <<>> /\ crError = <<>>

rerunVars == <<provider, returned, existedBefore>>

RerunParked == provider = <<>> /\ returned = <<>> /\ existedBefore = <<>>

pollVars == <<poller, checks, elapsed, exhausted, pollPc, pollOutcome,
              reported>>

PollParked ==
    /\ poller = <<>> /\ checks = <<>> /\ elapsed = <<>> /\ exhausted = <<>>
    /\ pollPc = <<>> /\ pollOutcome = <<>>
    /\ reported = <<>>

earlyVars == <<earlyPc, earlyProjectId, projectRead, billingRead, enablePromises,
               settledOrder, earlyOutcome>>

EarlyParked ==
    /\ earlyPc = <<>> /\ earlyProjectId = <<>> /\ projectRead = <<>>
    /\ billingRead = <<>> /\ enablePromises = <<>> /\ settledOrder = <<>>
    /\ earlyOutcome = <<>>

tokenVars == <<tokenStore, storeCalls, clockMs, requests, requestOutcome>>

TokenParked ==
    /\ tokenStore = <<>> /\ storeCalls = <<>> /\ clockMs = <<>>
    /\ requests = <<>> /\ requestOutcome = <<>>

keysVars == <<keyPc, regenerate, lookups, lookupRetries, managedServiceName,
              pollAttempts, keyReturn>>

KeysParked ==
    /\ keyPc = <<>> /\ regenerate = <<>> /\ lookups = <<>>
    /\ lookupRetries = <<>> /\ managedServiceName = <<>>
    /\ pollAttempts = <<>> /\ keyReturn = <<>>

vars == <<callVars, installVars, policyVars, prereqVars, payloadVars,
          createVars, rerunVars, pollVars, earlyVars, tokenVars,
          keysVars>>

(***************************************************************************)
(* Bounds                                                                  *)
(***************************************************************************)
MaxRetries == 3

Min(a, b) == IF a < b THEN a ELSE b

Last(s) == s[Len(s)]

(***************************************************************************)
(* JavaScript values                                                       *)
(*                                                                         *)
(* Objects are functions from keys to values; strings are strings; the     *)
(* booleans true and false, undefined and null are written as strings of   *)
(* their own, so that a key's value can always be compared.                *)
(***************************************************************************)
Null == [null |-> TRUE]

UNDEFINED == "<undefined>"

JSNULL == "<null>"

JSTRUE == "true"

EmptyObj == [k \in {} |-> ""]

\* o[k], or undefined when o has no property k
Get(o, k) == IF k \in DOMAIN o THEN o[k] ELSE UNDEFINED

\* JavaScript truthiness of a string, boolean, undefined or null
Truthy(v) == v \notin {"", UNDEFINED, JSNULL, "false"}

\* a || b
OrElse(a, b) == IF Truthy(a) THEN a ELSE b

\* Object.assign(target, source), { ...target, ...source }
Assign(target, source) ==
    [k \in (DOMAIN target) \cup (DOMAIN source) |->
        IF k \in DOMAIN source THEN source[k] ELSE target[k]]

\* array.includes(x)
Includes(seq, x) == \E i \in 1..Len(seq) : seq[i] = x

(***************************************************************************)
(* sanitizeForStorage (src/lib/secure-storage.ts:112-147)                  *)
(***************************************************************************)
PROTECTED == "[PROTECTED]"

\* The keys of the stored state whose lower-cased name includes one of
\* sensitiveFields = ['token', 'password', 'secret', 'key', 'apiKey']
\* (lines 120, 130-131).  Of the keys the installer stores these are the ones
\* that include 'key'; `appId`, `value`, `url`, `email` and the others do not.
SensitiveKeys ==
    {"apiKey", "firebaseWebApiKey", "keyId",
     "API_GATEWAY_API_KEY", "FIREBASE_WEB_API_KEY", "API Key", "Web API Key",
     "API Key Status"}

\* lines 133-138: a sensitive key holding a string is masked; a key holding
\* an object is recursed into whatever its name (the callers below do that)
MaskValue(key, value) ==
    IF key \in SensitiveKeys /\ value \notin {JSTRUE, "false", JSNULL, UNDEFINED}
    THEN (IF value # "" THEN PROTECTED ELSE "")
    ELSE value

\* sanitizeObject on an object all of whose values are primitives
SanitizeFlat(obj) == [k \in DOMAIN obj |-> MaskValue(k, obj[k])]

\* JSON.stringify (SecureStorage.setItem, line 48) leaves out the properties
\* whose value is undefined
DropUndefined(obj) ==
    [k \in {j \in DOMAIN obj : obj[j] # UNDEFINED} |-> obj[k]]

\* sanitizeObject on an install result: its configurationSummary is an object
SanitizeResult(res) ==
    [k \in DOMAIN res |->
        IF k = "configurationSummary" THEN SanitizeFlat(DropUndefined(res[k]))
        ELSE MaskValue(k, res[k])]

\* sanitizeObject on `resources`: every entry is an object, the `urls` of
\* cloudFunctions an object again
SanitizeResources(resources) ==
    [kind \in DOMAIN resources |->
        IF kind = "cloudFunctions"
        THEN [k \in DOMAIN resources[kind] |->
                 IF k = "urls" THEN SanitizeFlat(resources[kind][k])
                 ELSE MaskValue(k, resources[kind][k])]
        ELSE SanitizeFlat(resources[kind])]

sanitizeForStorage(state) ==
    [state EXCEPT !.resources = SanitizeResources(@),
                  !.installResult = IF @ = Null THEN Null ELSE SanitizeResult(@)]

(***************************************************************************)
(* InstallationStateManager (src/lib/installation-state.ts)                *)
(*                                                                         *)
(* SecureStorage.setItem / getItem encrypt and decrypt the JSON text of    *)
(* the value they are given; localStorage is taken to work (its errors are *)
(* logged and swallowed by the code), so what getItem returns is what      *)
(* setItem was last given.  projectName and startedAt never influence      *)
(* control flow and are left out of the record.                            *)
(***************************************************************************)
CURRENT_VERSION == "v2.1.2-SECURITY"

\* The version stamps of records left by earlier builds: none at all (the
\* field is optional, line 6) or another build's.
OldVersions == {"", "v2.1.0-RESILIENT"}

CRITICAL_STEPS_V2_1_2 ==
    {"Enabling APIs", "Creating API Gateway", "Creating service accounts"}

StaleAfterHours == 24

\* save (lines 55-71): the new content of localStorage
save(state, t) ==
    sanitizeForStorage([state EXCEPT !.lastUpdated = t,
                                     !.version = CURRENT_VERSION])

\* Mutant of IsStale: a record expires after a week.
IsStale_Week(state, t) == (t - state.lastUpdated) > 168

\* lines 82-86: hoursSinceUpdate > 24
IsStale(state, t) == (t - state.lastUpdated) > StaleAfterHours

\* load (lines 73-96): the value returned
load(store, projectId, t) ==
    IF store = Null THEN Null
    ELSE IF store.projectId # projectId THEN Null
    ELSE IF IsStale(store, t) THEN Null
    ELSE store

\* load (lines 86-89): what is left in localStorage (this.clear() on a stale
\* record of the same project)
storeAfterLoad(store, projectId, t) ==
    IF store # Null /\ store.projectId = projectId /\ IsStale(store, t)
    THEN Null
    ELSE store

NewState(projectId, t) ==
    [projectId |-> projectId, lastUpdated |-> t, version |-> "",
     completedSteps |-> <<>>, resources |-> EmptyObj, installResult |-> Null]

\* Mutant of updateStep: the step name is not recorded.
updateStep_Forgets(store, projectId, step, resources, t) ==
    LET loaded == load(store, projectId, t)
        current == IF loaded # Null THEN loaded ELSE NewState(projectId, t)
    IN  save([current EXCEPT !.resources = Assign(@, resources)], t)

\* Mutant of updateStep: the step name is pushed without the includes test.
updateStep_AlwaysPushes(store, projectId, step, resources, t) ==
    LET loaded == load(store, projectId, t)
        current == IF loaded # Null THEN loaded ELSE NewState(projectId, t)
    IN  save([current EXCEPT !.completedSteps = Append(@, step),
                             !.resources = Assign(@, resources)], t)

\* Mutant of updateStep: the resources are replaced instead of merged.
updateStep_Replaces(store, projectId, step, resources, t) ==
    LET loaded == load(store, projectId, t)
        current == IF loaded # Null THEN loaded ELSE NewState(projectId, t)
        steps == IF Includes(current.completedSteps, step)
                 THEN current.completedSteps
                 ELSE Append(current.completedSteps, step)
    IN  save([current EXCEPT !.completedSteps = steps,
                             !.resources = resources], t)

\* updateStep (lines 98-117): the new content of localStorage
updateStep(store, projectId, step, resources, t) ==
    LET loaded == load(store, projectId, t)
        current == IF loaded # Null THEN loaded ELSE NewState(projectId, t)
        steps == IF Includes(current.completedSteps, step)
                 THEN current.completedSteps
                 ELSE Append(current.completedSteps, step)
    IN  save([current EXCEPT !.completedSteps = steps,
                             !.resources = Assign(@, resources)], t)

\* Mutant of hasCompletedStep: no step is ever reported completed.
hasCompletedStep_Never(store, projectId, step, t) == FALSE

\* hasCompletedStep (lines 127-145)
hasCompletedStep(store, projectId, step, t) ==
    LET state == load(store, projectId, t)
    IN  IF state = Null \/ ~Includes(state.completedSteps, step) THEN FALSE
        ELSE IF step \in CRITICAL_STEPS_V2_1_2
                /\ (~Truthy(state.version) \/ state.version # CURRENT_VERSION)
        THEN FALSE
        ELSE TRUE

\* getResources (lines 147-150): state?.resources || null
getResources(store, projectId, t) ==
    LET state == load(store, projectId, t)
    IN  IF state = Null THEN Null ELSE state.resources


(***************************************************************************)
(* gcpApiCall                                                              *)
(***************************************************************************)
\* fetch's outcomes for one attempt: a response with response.ok, a response
\* with an HTTP error status, the AbortController firing (AbortError), or a
\* rejection of fetch (network-level error).
Payloads == {"payloadA", "payloadB"}

Statuses == {400, 401, 403, 404, 409, 429, 500, 502, 503}

FetchOutcomes ==
    [kind : {"ok"}, payload : Payloads]
        \cup [kind : {"http"}, status : Statuses]
        \cup [kind : {"abort"}]
        \cup [kind : {"network"}]

\* The deadlines gcpApiCall is called with (the default of line 404, the
\* status-check calls of lines 1533 and 1561), and the cap itself.
MaxTimeoutMs == 600000

InitialTimeouts == {30000, 60000, 300000, MaxTimeoutMs}

\* line 448: timeoutMs = Math.min(timeoutMs * 1.5, 600000)
ExtendTimeout(t) == Min((t * 3) \div 2, MaxTimeoutMs)

\* Mutant of RetryDelay: a fixed pause instead of one that grows with the attempt.
RetryDelay_Fixed(a) == 2000

\* lines 435, 449, 456: setTimeout(resolve, attempt * 2000)
RetryDelay(a) == a * 2000

\* Mutant of RetryOnStatus: the last attempt is retried too (attempt <= retries).
RetryOnStatus_OffByOne(status, a, n) == status >= 500 /\ a <= n

\* line 433: response.status >= 500 && attempt < retries
RetryOnStatus(status, a, n) == status >= 500 /\ a < n

\* line 454: if (attempt === retries) throw err  -- reached by every error
\* that is not an AbortError, the Error thrown at line 439 for a non-ok
\* response included, because that throw sits inside the try block.
RethrowInCatch(a, n) == a = n

\* The variables of install() while a call is examined on its own.
InstallParked ==
    /\ localStorage = Null /\ now = 0 /\ ticks = 0 /\ runs = 0
    /\ pc = "idle" /\ config = EmptyObj /\ savedState = Null
    /\ stepIdx = 1 /\ totalProgress = 0 /\ results = EmptyObj
    /\ skippedSteps = <<>> /\ outcome = Null
    /\ invoked = <<>> /\ finished = <<>> /\ progress = <<>>
    /\ updates = <<>> /\ answers = EmptyObj /\ prev = EmptyObj

InitCall ==
    /\ KeysParked
    /\ TokenParked
    /\ EarlyParked
    /\ PollParked
    /\ InstallParked /\ PolicyParked /\ PrereqParked /\ PayloadParked
    /\ CreateParked /\ RerunParked
    /\ retries \in 1..MaxRetries
    /\ timeoutMs \in InitialTimeouts
    /\ attempt = 1
    /\ callPc = "fetch"
    /\ responses = <<>>
    /\ delays = <<>>
    /\ deadlines = <<>>
    /\ callResult = [kind |-> "none"]

\* One iteration of the for loop whose fetch resolves with response.ok
\* (line 442).
AttemptOk(r) ==
    /\ callPc = "fetch" /\ attempt <= retries
    /\ r.kind = "ok"
    /\ responses' = Append(responses, r)
    /\ deadlines' = Append(deadlines, timeoutMs)
    /\ callPc' = "returned"
    /\ callResult' = [kind |-> "payload", payload |-> r.payload]
    /\ UNCHANGED <<retries, timeoutMs, attempt, delays>>

\* One iteration whose fetch resolves with !response.ok (lines 428-440, and
\* the catch block of lines 443-457 that receives the Error of line 439).
AttemptHttpError(r) ==
    /\ callPc = "fetch" /\ attempt <= retries
    /\ r.kind = "http"
    /\ responses' = Append(responses, r)
    /\ deadlines' = Append(deadlines, timeoutMs)
    /\ IF RetryOnStatus(r.status, attempt, retries)
       THEN /\ delays' = Append(delays, RetryDelay(attempt))
            /\ attempt' = attempt + 1
            /\ UNCHANGED <<callPc, callResult>>
       ELSE IF RethrowInCatch(attempt, retries)
       THEN /\ callPc' = "thrown"
            /\ callResult' = [kind |-> "apiError", status |-> r.status]
            /\ UNCHANGED <<attempt, delays>>
       ELSE /\ delays' = Append(delays, RetryDelay(attempt))
            /\ attempt' = attempt + 1
            /\ UNCHANGED <<callPc, callResult>>
    /\ UNCHANGED <<retries, timeoutMs>>

\* One iteration whose fetch is aborted by the deadline (lines 444-453).
AttemptTimeout(r) ==
    /\ callPc = "fetch" /\ attempt <= retries
    /\ r.kind = "abort"
    /\ responses' = Append(responses, r)
    /\ deadlines' = Append(deadlines, timeoutMs)
    /\ IF attempt < retries
       THEN /\ timeoutMs' = ExtendTimeout(timeoutMs)
            /\ delays' = Append(delays, RetryDelay(attempt))
            /\ attempt' = attempt + 1
            /\ UNCHANGED <<callPc, callResult>>
       ELSE /\ callPc' = "thrown"
            /\ callResult' = [kind |-> "timeout"]
            /\ UNCHANGED <<timeoutMs, attempt, delays>>
    /\ UNCHANGED retries

\* One iteration whose fetch rejects with another error (lines 454-456).
AttemptNetworkError(r) ==
    /\ callPc = "fetch" /\ attempt <= retries
    /\ r.kind = "network"
    /\ responses' = Append(responses, r)
    /\ deadlines' = Append(deadlines, timeoutMs)
    /\ IF RethrowInCatch(attempt, retries)
       THEN /\ callPc' = "thrown"
            /\ callResult' = [kind |-> "networkError"]
            /\ UNCHANGED <<attempt, delays>>
       ELSE /\ delays' = Append(delays, RetryDelay(attempt))
            /\ attempt' = attempt + 1
            /\ UNCHANGED <<callPc, callResult>>
    /\ UNCHANGED <<retries, timeoutMs>>

NextCall ==
    /\ \E r \in FetchOutcomes :
        \/ AttemptOk(r)
        \/ AttemptHttpError(r)
        \/ AttemptTimeout(r)
        \/ AttemptNetworkError(r)
    /\ UNCHANGED <<installVars, policyVars, prereqVars, payloadVars, createVars, rerunVars,
                   pollVars,
                   earlyVars,
                   tokenVars,
                   keysVars>>

\* The variables of gcpApiCall while install() is examined on its own.
CallParked ==
    /\ retries = 1 /\ timeoutMs = MaxTimeoutMs /\ attempt = 1
    /\ callPc = "returned" /\ responses = <<>> /\ delays = <<>>
    /\ deadlines = <<>> /\ callResult = [kind |-> "none"]

SpecCall == InitCall /\ [][NextCall]_vars

(***************************************************************************)
(* AnavaGCPInstaller: configuration and step list                          *)
(***************************************************************************)
Projects == {"proj-a", "proj-b"}

\* src/pages/index.tsx:64 (always 'anava') and the region of the run
solutionPrefix == "anava"

region == "us-central1"

\* install(), lines 96-106
StepNames ==
    << "Checking prerequisites", "Validating project", "Enabling APIs",
       "Creating service accounts", "Setting up Firebase",
       "Deploying Cloud Functions", "Configuring Workload Identity",
       "Creating API Gateway", "Generating API keys" >>

\* Weights whose last entry is one short.
StepWeights_Light == <<5, 5, 10, 15, 10, 20, 15, 15, 4>>

StepWeights == <<5, 5, 10, 15, 10, 20, 15, 15, 5>>

NumSteps == Len(StepNames)

StepSet == {StepNames[i] : i \in 1..NumSteps}

IndexOf(step) == CHOOSE i \in 1..NumSteps : StepNames[i] = step

\* `${prefix}-${sa.id}@${projectId}.iam.gserviceaccount.com` (line 596)
SaEmail(id, projectId) ==
    solutionPrefix \o "-" \o id \o "@" \o projectId \o ".iam.gserviceaccount.com"

\* `https://${region}-${projectId}.cloudfunctions.net/${fn.name}`
\* (lines 1015, 2031-2032)
ExpectedFunctionUrl(fnName, projectId) ==
    "https://" \o region \o "-" \o projectId \o ".cloudfunctions.net/" \o fnName

\* `https://${prefix}-gateway-${projectId}.apigateway.${region}.cloud.goog`
\* (lines 1383, 2035)
ExpectedGatewayUrl(projectId) ==
    "https://" \o solutionPrefix \o "-gateway-" \o projectId \o ".apigateway."
        \o region \o ".cloud.goog"

(***************************************************************************)
(* What the provider reports.  A second-generation function's              *)
(* serviceConfig.uri is a run.app address, not the cloudfunctions.net      *)
(* address the installer expects; the other values are opaque strings.     *)
(***************************************************************************)
ProviderFunctionUri(fnName) == "https://" \o fnName \o "-x7k2-uc.a.run.app"

ProviderGatewayHostname == "anava-gateway-9f3b.uc.gateway.dev"

ProviderManagedService == "anava-device-api-1a2b.apigateway.cloud.goog"

ProviderApiKey == "AIzaSy-device-key"

ProviderApiKeyName == "projects/p/locations/global/keys/k1"

ProviderWebApiKey == "AIzaSy-web-key"

ProviderProjectNumber(projectId) == "number-of-" \o projectId

DeviceAuthFn == solutionPrefix \o "-device-auth"

TvmFn == solutionPrefix \o "-tvm"

(***************************************************************************)
(* The step functions, by the way the provider answered.  An answer is the *)
(* class of provider behaviour that selects one return statement (or one   *)
(* throw) of the step; StepResult is the object that return statement      *)
(* builds.                                                                 *)
(***************************************************************************)
\* sa.id.replace('-', '_') + '_email' (lines 607, 635): replace with a string
\* pattern replaces the first '-' only.
SaResultKey(id) ==
    CASE id = "vertex-ai-sa" -> "vertex_ai-sa_email"
      [] id = "device-auth-sa" -> "device_auth-sa_email"
      [] id = "tvm-sa" -> "tvm_sa_email"
      [] id = "apigw-invoker-sa" -> "apigw_invoker-sa_email"

ServiceAccountIds == {"vertex-ai-sa", "device-auth-sa", "tvm-sa", "apigw-invoker-sa"}

\* deployFunctions, per function: the function exists or its deployment went
\* through (lines 951, 1006: the provider's uri), or the deployment failed
\* and the catch of lines 1012-1017 substituted the expected address.
FunctionAnswers == {"deployed", "failed"}

FunctionUrls(fnName, fnAnswer, projectId) ==
    IF fnAnswer = "deployed"
    THEN (fnName :> ProviderFunctionUri(fnName))
    ELSE (fnName :> ExpectedFunctionUrl(fnName, projectId))
            @@ ((fnName \o "_deployment_failed") :> JSTRUE)

\* The answers under which a step returns.
ReturnAnswers(step) ==
    CASE step = "Checking prerequisites" -> {[kind |-> "ok"]}
      [] step = "Validating project" -> {[kind |-> "ok"]}
      [] step = "Enabling APIs" -> {[kind |-> "ok"]}
      [] step = "Creating service accounts" -> {[kind |-> "ok"]}
      [] step = "Setting up Firebase" ->
            \* lines 808-819: the web app config was read, or it was not
            {[kind |-> "ok", webKey |-> k] : k \in {ProviderWebApiKey, ""}}
      [] step = "Deploying Cloud Functions" ->
            [kind : {"ok"}, deviceAuth : FunctionAnswers, tvm : FunctionAnswers]
      [] step = "Configuring Workload Identity" -> {[kind |-> "ok"]}
      [] step = "Creating API Gateway" ->
            \* line 1577 / lines 1443-1449 / lines 1381-1385
            {[kind |-> "active"], [kind |-> "configNotReady"],
             [kind |-> "failed_permissions"]}
      [] step = "Generating API keys" ->
            \* lines 1803, 1892-1920, 1946 / lines 1955-1969, 1978-1981
            {[kind |-> "created"], [kind |-> "notCreated"]}

\* The causes with which a step throws; enableAPIs and generateAPIKeys catch
\* every error of their calls and never throw.
ThrowCauses(step) ==
    CASE step = "Checking prerequisites" -> {"PREREQUISITES_MISSING:W3sibmFtZSI6"}
      [] step = "Validating project" ->
            {"Error: Project is not active", "Error: GCP API Error: 403 - denied"}
      [] step = "Enabling APIs" -> {}
      [] step = "Creating service accounts" -> {"Error: GCP API Error: 403 - denied"}
      [] step = "Setting up Firebase" -> {"Error: GCP API Error: 400 - bad request"}
      [] step = "Deploying Cloud Functions" -> {"Error: GCP API Error: 403 - denied"}
      [] step = "Configuring Workload Identity" -> {"Error: GCP API Error: 403 - denied"}
      [] step = "Creating API Gateway" -> {"Error: API Gateway API is not enabled."}
      [] step = "Generating API keys" -> {}

\* The object a step returns (checkPrerequisites line 401, validateProject
\* line 516, enableAPIs line 581, createServiceAccounts lines 592-641,
\* setupFirebase lines 821-824, deployFunctions line 1020,
\* setupWorkloadIdentity line 1093, createAPIGateway lines 1381-1385,
\* 1443-1449, 1577-1580, generateAPIKeys lines 1803-1981).
StepResult(step, answer, projectId) ==
    CASE step = "Checking prerequisites" -> [prerequisitesChecked |-> JSTRUE]
      [] step = "Validating project" ->
            [projectValidated |-> JSTRUE,
             projectNumber |-> ProviderProjectNumber(projectId)]
      [] step = "Enabling APIs" -> [apisEnabled |-> JSTRUE]
      [] step = "Creating service accounts" ->
            [k \in {SaResultKey(id) : id \in ServiceAccountIds} |->
                SaEmail(CHOOSE id \in ServiceAccountIds : SaResultKey(id) = k,
                        projectId)]
      [] step = "Setting up Firebase" ->
            [firebaseEnabled |-> JSTRUE, firebaseWebApiKey |-> answer.webKey]
      [] step = "Deploying Cloud Functions" ->
            FunctionUrls(DeviceAuthFn, answer.deviceAuth, projectId)
                @@ FunctionUrls(TvmFn, answer.tvm, projectId)
      [] step = "Configuring Workload Identity" ->
            [workloadIdentityConfigured |-> JSTRUE]
      [] step = "Creating API Gateway" ->
           (CASE answer.kind = "active" ->
                    [apiGatewayUrl |-> "https://" \o ProviderGatewayHostname,
                     managedService |-> ProviderManagedService]
              [] answer.kind = "configNotReady" ->
                    [apiGatewayWarning |-> "API Gateway is still activating.",
                     apiId |-> solutionPrefix \o "-device-api",
                     configId |-> solutionPrefix \o "-device-api-config-1",
                     gatewayId |-> solutionPrefix \o "-gateway",
                     shouldRetryLater |-> JSTRUE]
              [] answer.kind = "failed_permissions" ->
                    [apiGateway |-> "failed_permissions",
                     apiGatewayUrl |-> ExpectedGatewayUrl(projectId),
                     apiGatewayError |-> "Permissions not yet propagated"])
      [] step = "Generating API keys" ->
            IF answer.kind = "created"
            THEN [apiKey |-> ProviderApiKey, apiKeyId |-> ProviderApiKeyName]
            ELSE [apiKey |-> JSNULL, apiKeyError |-> "API key creation failed"]

\* mapResultsToResources (lines 177-245)
mapResultsToResources(stepName, stepResult) ==
    CASE stepName = "Creating service accounts"
            /\ Truthy(Get(stepResult, "serviceAccountEmail")) ->
            [serviceAccount |->
                [email |-> stepResult.serviceAccountEmail, created |-> JSTRUE]]
      [] stepName = "Setting up Firebase"
            /\ Truthy(Get(stepResult, "firebaseEnabled")) ->
            [firebaseApp |->
                [appId |-> OrElse(Get(stepResult, "firebaseWebApiKey"), ""),
                 created |-> JSTRUE]]
      [] stepName = "Deploying Cloud Functions"
            /\ (Truthy(Get(stepResult, "deviceAuthUrl"))
                \/ Truthy(Get(stepResult, "tvmUrl"))) ->
            [cloudFunctions |->
                [deployed |-> JSTRUE,
                 urls |-> [deviceAuth |-> OrElse(Get(stepResult, "deviceAuthUrl"), ""),
                           tvm |-> OrElse(Get(stepResult, "tvmUrl"), "")]]]
      [] stepName = "Configuring Workload Identity"
            /\ Truthy(Get(stepResult, "workloadIdentityPoolId")) ->
            [workloadIdentity |->
                [poolId |-> stepResult.workloadIdentityPoolId,
                 providerId |-> OrElse(Get(stepResult, "workloadIdentityProviderId"), ""),
                 created |-> JSTRUE]]
      [] stepName = "Creating API Gateway"
            /\ Truthy(Get(stepResult, "apiGatewayUrl")) ->
            [apiGateway |->
                [apiId |-> OrElse(Get(stepResult, "apiId"), ""),
                 configId |-> OrElse(Get(stepResult, "apiConfigId"), ""),
                 gatewayId |-> OrElse(Get(stepResult, "gatewayId"), ""),
                 created |-> JSTRUE,
                 url |-> stepResult.apiGatewayUrl]]
      [] stepName = "Generating API keys"
            /\ Truthy(Get(stepResult, "apiKey")) ->
            [apiKey |->
                [keyId |-> OrElse(Get(stepResult, "apiKeyId"), ""),
                 value |-> stepResult.apiKey,
                 created |-> JSTRUE]]
      [] OTHER -> EmptyObj

\* install(), lines 120-137: what a skipped step folds into `results`
foldSavedResources(stepName, savedResources) ==
    IF savedResources = Null THEN EmptyObj
    ELSE CASE stepName = "Creating service accounts"
                /\ "serviceAccount" \in DOMAIN savedResources ->
                [serviceAccountEmail |-> savedResources.serviceAccount.email]
           [] stepName = "Setting up Firebase"
                /\ "firebaseApp" \in DOMAIN savedResources ->
                [firebaseEnabled |-> JSTRUE,
                 firebaseWebApiKey |-> savedResources.firebaseApp.appId]
           [] stepName = "Creating API Gateway"
                /\ "apiGateway" \in DOMAIN savedResources
                /\ Truthy(Get(savedResources.apiGateway, "url")) ->
                [apiGatewayUrl |-> savedResources.apiGateway.url]
           [] stepName = "Generating API keys"
                /\ "apiKey" \in DOMAIN savedResources
                /\ Truthy(Get(savedResources.apiKey, "value")) ->
                [apiKey |-> savedResources.apiKey.value]
           [] OTHER -> EmptyObj

\* compileResults (lines 2023-2119).  The fields of the result that are
\* fixed text or repeat another field (setupCommand, the section titles, the
\* console links, the next steps) are left out.
compileResults(res, cfg) ==
    LET p == cfg.projectId
        apiGatewayUrl == OrElse(Get(res, "apiGatewayUrl"), ExpectedGatewayUrl(p))
        apiGatewayError == Get(res, "apiGatewayError")
        apiKey == OrElse(Get(res, "apiKey"), "")
        firebaseWebApiKey == OrElse(Get(res, "firebaseWebApiKey"), "")
    IN  [success |-> JSTRUE,
         apiGatewayUrl |-> apiGatewayUrl,
         apiKey |-> apiKey,
         firebaseWebApiKey |-> firebaseWebApiKey,
         projectId |-> p,
         region |-> region,
         solutionPrefix |-> solutionPrefix,
         configurationSummary |->
            ("API_GATEWAY_API_KEY" :> OrElse(apiKey, "NOT CREATED - Manual setup required"))
            @@ ("API_GATEWAY_BASE_URL" :> apiGatewayUrl)
            @@ ("FIREBASE_WEB_API_KEY" :>
                    OrElse(firebaseWebApiKey, "NOT RETRIEVED - Check Firebase Console"))
            @@ ("Project Number" :>
                    OrElse(cfg.projectNumber, Get(res, "projectNumber")))
            @@ ("Vertex AI SA" :>
                    OrElse(Get(res, "vertex_ai_sa_email"), SaEmail("vertex-ai-sa", p)))
            @@ ("Device Auth Function SA" :>
                    OrElse(Get(res, "device_auth_sa_email"), SaEmail("device-auth-sa", p)))
            @@ ("TVM Function SA" :>
                    OrElse(Get(res, "tvm_sa_email"), SaEmail("tvm-sa", p)))
            @@ ("API Gateway Invoker SA" :>
                    OrElse(Get(res, "apigw_invoker_sa_email"), SaEmail("apigw-invoker-sa", p)))
            @@ ("Device Auth Function" :>
                    OrElse(Get(res, "anava-device-auth"),
                           ExpectedFunctionUrl(DeviceAuthFn, p)))
            @@ ("TVM Function" :>
                    OrElse(Get(res, "anava-tvm"), ExpectedFunctionUrl(TvmFn, p)))
            @@ ("Status" :>
                    IF Truthy(apiGatewayError) THEN apiGatewayError ELSE "Created")
            @@ ("API Key" :> OrElse(apiKey, "NOT CREATED - Create manually in API Keys"))
            @@ ("Firebase Enabled" :>
                    IF Truthy(Get(res, "firebaseEnabled")) THEN "Yes" ELSE "No")
            @@ ("Web API Key" :> OrElse(firebaseWebApiKey, "Get from Firebase Console"))
            @@ ("WIF Configuration" :>
                    IF Truthy(Get(res, "workloadIdentityConfigured"))
                    THEN "Configured" ELSE "Not configured")
            @@ ("API Key Status" :>
                    IF Truthy(apiKey) THEN "Created successfully" ELSE "Not created yet")
            @@ ("Firebase" :>
                    IF Truthy(firebaseWebApiKey) THEN "Configured"
                    ELSE "Check Firebase Console")]

(***************************************************************************)
(* install() (src/lib/gcp-installer.ts:74-175)                             *)
(*                                                                         *)
(* One action per stretch of install() between two awaits: Begin runs      *)
(* lines 76-110, SkipStep one pass through the skip branch, StartStep the  *)
(* pass up to the call of step.fn(), StepReturns and StepRaises the rest   *)
(* of that pass, Finish lines 157-174.  Each page load builds a new        *)
(* installer (src/pages/index.tsx:225), so a run starts from a config that *)
(* has no projectNumber.  The clock is read once per run: it advances      *)
(* between runs only.                                                      *)
(***************************************************************************)
MaxRuns == 2

MaxTicks == 1

\* Hours the clock is advanced by between two runs: up to the expiry of a
\* record written just before, and past it.
TickHours == {StaleAfterHours, StaleAfterHours + 1}

NoAnswer == [kind |-> "none"]

NoAnswers == [s \in StepSet |-> NoAnswer]

\* The answers of a provider on which every creation goes through.
CanonicalAnswer(step) ==
    CASE step = "Setting up Firebase" -> [kind |-> "ok", webKey |-> ProviderWebApiKey]
      [] step = "Deploying Cloud Functions" ->
            [kind |-> "ok", deviceAuth |-> "deployed", tvm |-> "deployed"]
      [] step = "Creating API Gateway" -> [kind |-> "active"]
      [] step = "Generating API keys" -> [kind |-> "created"]
      [] OTHER -> [kind |-> "ok"]

RECURSIVE RecordSteps(_, _, _, _, _, _)
\* The record left by n successful passes of lines 141-150 over the first n
\* steps, under the given answers.
RecordSteps(store, projectId, n, i, ans, t) ==
    IF i > n THEN store
    ELSE RecordSteps(
            updateStep(store, projectId, StepNames[i],
                       mapResultsToResources(StepNames[i],
                            StepResult(StepNames[i], ans[StepNames[i]], projectId)),
                       t),
            projectId, n, i + 1, ans, t)

\* Records found in the browser that an earlier build of the installer left:
\* same layout, another version stamp (or none).
LegacyPrefixes == {4, 8}

LegacyRecords ==
    { [RecordSteps(save(NewState("proj-a", 0), 0), "proj-a", n, 1,
                   [s \in StepSet |-> CanonicalAnswer(s)], 0)
        EXCEPT !.version = v] :
        n \in LegacyPrefixes, v \in OldVersions }

\* A record of the current build in which one step alone is marked: the
\* STORAGE_KEY item is whatever the browser holds, and nothing in load
\* (installation-state.ts:73-96) asks for the steps before it.
SingleStepRecord ==
    save([NewState("proj-a", 0) EXCEPT !.completedSteps = <<"Enabling APIs">>], 0)

InitInstall ==
    /\ KeysParked
    /\ TokenParked
    /\ EarlyParked
    /\ PollParked
    /\ CallParked /\ PolicyParked /\ PrereqParked /\ PayloadParked
    /\ CreateParked /\ RerunParked
    /\ localStorage \in {Null, SingleStepRecord} \cup LegacyRecords
    /\ answers = IF localStorage = Null THEN NoAnswers
                 ELSE [s \in StepSet |->
                        IF Includes(localStorage.completedSteps, s)
                        THEN CanonicalAnswer(s) ELSE NoAnswer]
    /\ now = 0
    /\ ticks = 0
    /\ runs = 0
    /\ pc = "idle"
    /\ config = [projectId |-> "", projectNumber |-> UNDEFINED]
    /\ savedState = Null
    /\ stepIdx = 1
    /\ totalProgress = 0
    /\ results = EmptyObj
    /\ skippedSteps = <<>>
    /\ outcome = Null
    /\ invoked = <<>>
    /\ finished = <<>>
    /\ progress = <<>>
    /\ updates = <<>>
    /\ prev = [found |-> Null, at |-> 0, projectId |-> "", pc |-> "idle",
               finished |-> <<>>]

\* Mutant of FailureMessage: the step is not named.
FailureMessage_NoStep(step, cause) == "Installation failed: " \o cause

\* line 152: `Failed at step "${step.name}": ${error}`
FailureMessage(step, cause) == "Failed at step \"" \o step \o "\": " \o cause

Resting == pc \in {"idle", "failed", "done"}

\* Time passes while no run is in progress.
Tick(d) ==
    /\ Resting
    /\ ticks < MaxTicks
    /\ now' = now + d
    /\ ticks' = ticks + 1
    /\ UNCHANGED <<localStorage, runVars, obsVars>>

\* "Start fresh" (src/pages/index.tsx:467-473): InstallationStateManager.clear();
\* the page no longer shows a run to resume.
Clear ==
    /\ Resting
    /\ localStorage # Null
    /\ localStorage' = Null
    /\ pc' = "idle"
    /\ UNCHANGED <<now, ticks, runs, config, savedState, stepIdx, totalProgress,
                   results, skippedSteps, outcome, obsVars>>

\* install(), lines 76-110
Begin(p) ==
    /\ Resting
    /\ runs < MaxRuns
    /\ runs' = runs + 1
    /\ config' = [projectId |-> p, projectNumber |-> UNDEFINED]
    /\ LET loaded == load(localStorage, p, now)
           isResuming == loaded # Null
       IN  /\ savedState' = loaded
           /\ progress' = IF isResuming THEN <<0>> ELSE <<>>
           /\ localStorage' = IF isResuming THEN localStorage
                              ELSE save(NewState(p, now), now)
           /\ results' = IF isResuming /\ loaded.installResult # Null
                         THEN loaded.installResult ELSE EmptyObj
           /\ answers' = IF isResuming THEN answers ELSE NoAnswers
    /\ totalProgress' = 0
    /\ skippedSteps' = <<>>
    /\ stepIdx' = 1
    /\ outcome' = Null
    /\ invoked' = <<>>
    /\ finished' = <<>>
    /\ updates' = <<>>
    /\ prev' = [found |-> IF localStorage = Null THEN Null
                          ELSE [projectId |-> localStorage.projectId,
                                lastUpdated |-> localStorage.lastUpdated],
                at |-> now,
                projectId |-> config.projectId,
                pc |-> pc,
                finished |-> IF pc = "failed" THEN finished ELSE <<>>]
    /\ pc' = "loop"
    /\ UNCHANGED <<now, ticks>>

\* install(), lines 114-139: the step is reported completed and is skipped
SkipStep ==
    /\ pc = "loop" /\ stepIdx <= NumSteps
    /\ LET step == StepNames[stepIdx]
           p == config.projectId
       IN  /\ hasCompletedStep(localStorage, p, step, now)
           /\ skippedSteps' = Append(skippedSteps, step)
           /\ totalProgress' = totalProgress + StepWeights[stepIdx]
           /\ progress' = Append(progress, totalProgress + StepWeights[stepIdx])
           /\ results' = Assign(results,
                    foldSavedResources(step, getResources(localStorage, p, now)))
           /\ localStorage' = storeAfterLoad(localStorage, p, now)
    /\ stepIdx' = stepIdx + 1
    /\ UNCHANGED <<now, ticks, runs, pc, config, savedState, outcome,
                   invoked, finished, updates, answers, prev>>

\* install(), lines 114 and 141-143: the step is not reported completed;
\* its action is called
StartStep ==
    /\ pc = "loop" /\ stepIdx <= NumSteps
    /\ LET step == StepNames[stepIdx]
           p == config.projectId
       IN  /\ ~hasCompletedStep(localStorage, p, step, now)
           /\ progress' = Append(progress, totalProgress)
           /\ invoked' = Append(invoked, step)
           /\ localStorage' = storeAfterLoad(localStorage, p, now)
    /\ pc' = "running"
    /\ UNCHANGED <<now, ticks, runs, config, savedState, stepIdx, totalProgress,
                   results, skippedSteps, outcome, finished, updates, answers,
                   prev>>

\* install(), lines 143-150: step.fn() resolved
StepReturns(answer) ==
    /\ pc = "running"
    /\ LET step == StepNames[stepIdx]
           p == config.projectId
           stepResult == StepResult(step, answer, p)
       IN  /\ answer \in ReturnAnswers(step)
           /\ results' = Assign(results, stepResult)
           /\ localStorage' = updateStep(localStorage, p, step,
                                mapResultsToResources(step, stepResult), now)
           /\ totalProgress' = totalProgress + StepWeights[stepIdx]
           /\ progress' = Append(progress, totalProgress + StepWeights[stepIdx])
           /\ finished' = Append(finished, step)
           /\ updates' = Append(updates, step)
           /\ answers' = [answers EXCEPT ![step] = answer]
           \* validateProject, line 472: this.config.projectNumber = ...
           /\ config' = IF step = "Validating project"
                        THEN [config EXCEPT !.projectNumber = ProviderProjectNumber(p)]
                        ELSE config
    /\ stepIdx' = stepIdx + 1
    /\ pc' = "loop"
    /\ UNCHANGED <<now, ticks, runs, savedState, skippedSteps, outcome, invoked,
                   prev>>

\* install(), lines 143 and 151-153: step.fn() rejected
StepRaises(cause) ==
    /\ pc = "running"
    /\ cause \in ThrowCauses(StepNames[stepIdx])
    /\ outcome' = [kind |-> "error",
                   message |-> FailureMessage(StepNames[stepIdx], cause)]
    /\ pc' = "failed"
    /\ UNCHANGED <<storeVars, runs, config, savedState, stepIdx, totalProgress,
                   results, skippedSteps, obsVars>>

\* A result that is given the resume information whatever the run did.
WithResumeInfo_Always(finalResult, isResuming, skipped) ==
    finalResult @@ [resumedInstallation |-> JSTRUE, skippedSteps |-> skipped]

\* install(), lines 168-172
WithResumeInfo(finalResult, isResuming, skipped) ==
    IF isResuming /\ Len(skipped) > 0
    THEN finalResult @@ [resumedInstallation |-> JSTRUE, skippedSteps |-> skipped]
    ELSE finalResult

\* install(), lines 157-174
Finish ==
    /\ pc = "loop" /\ stepIdx > NumSteps
    /\ LET p == config.projectId
           finalResult == compileResults(results, config)
           resources == getResources(localStorage, p, now)
           isResuming == savedState # Null
       IN  /\ localStorage' =
                save([projectId |-> p, lastUpdated |-> now, version |-> "",
                      completedSteps |-> StepNames,
                      resources |-> IF resources = Null THEN EmptyObj ELSE resources,
                      installResult |-> finalResult], now)
           /\ outcome' =
                [kind |-> "result",
                 value |-> WithResumeInfo(finalResult, isResuming, skippedSteps)]
    /\ pc' = "done"
    /\ UNCHANGED <<now, ticks, runs, config, savedState, stepIdx, totalProgress,
                   results, skippedSteps, obsVars>>

AllAnswers == UNION {ReturnAnswers(s) : s \in StepSet}

AllCauses == UNION {ThrowCauses(s) : s \in StepSet}

NextInstall ==
  /\ UNCHANGED <<callVars, policyVars, prereqVars, payloadVars, createVars, rerunVars,
                   pollVars,
                   earlyVars,
                   tokenVars,
                   keysVars>>
  /\
    \/ \E d \in TickHours : Tick(d)
    \/ Clear
    \/ \E p \in Projects : Begin(p)
    \/ SkipStep
    \/ StartStep
    \/ \E answer \in AllAnswers : StepReturns(answer)
    \/ \E cause \in AllCauses : StepRaises(cause)
    \/ Finish

SpecInstall == InitInstall /\ [][NextInstall]_vars

(***************************************************************************)
(* Claims about install() and the state store (checked under SpecInstall)  *)
(***************************************************************************)
Range(seq) == {seq[i] : i \in 1..Len(seq)}

\* A call of install() has been made and its record has not been cleared.
InRun == pc \in {"loop", "running", "failed", "done"}

\* The number of steps of the list the loop of line 112 has decided about.
Decided == IF pc \in {"running", "failed"} THEN stepIdx ELSE stepIdx - 1

\* The record install() loaded at line 76 is one this build wrote.
ResumesCurrent == savedState # Null /\ savedState.version = CURRENT_VERSION

\* The hours between the writing of the item install() found and the call.
FoundAge == prev.at - prev.found.lastUpdated

C2_CriticalStepsRerun ==
    (InRun /\ savedState # Null /\ savedState.version # CURRENT_VERSION) =>
        \A i \in 1..Decided :
            (StepNames[i] \in CRITICAL_STEPS_V2_1_2
                /\ Includes(savedState.completedSteps, StepNames[i]))
            => Includes(invoked, StepNames[i])

RECURSIVE UninterruptedResults(_, _, _)
\* `results` after the first n steps have all been executed in one run under
\* the given answers (line 144, step after step)
UninterruptedResults(ans, projectId, n) ==
    IF n = 0 THEN EmptyObj
    ELSE Assign(UninterruptedResults(ans, projectId, n - 1),
                StepResult(StepNames[n], ans[StepNames[n]], projectId))

\* What install() returns when it executes every step under the answers the
\* steps last got.
UninterruptedResult ==
    compileResults(UninterruptedResults(answers, config.projectId, NumSteps),
                   [config EXCEPT !.projectNumber =
                        ProviderProjectNumber(config.projectId)])

\* The fields of the result that carry what the steps produced.
ProducedFields == {"apiGatewayUrl", "apiKey", "firebaseWebApiKey"}

ProducedSummaryFields ==
    {"Vertex AI SA", "Device Auth Function SA", "TVM Function SA",
     "API Gateway Invoker SA", "Firebase Enabled", "Web API Key",
     "FIREBASE_WEB_API_KEY", "Device Auth Function", "TVM Function",
     "WIF Configuration", "API_GATEWAY_BASE_URL", "API_GATEWAY_API_KEY",
     "API Key"}

\* C3: the result of a run that skipped completed steps has, in the fields
\* that carry what the steps produced, the values of the result an
\* uninterrupted run compiles from the same provider answers.
C3_ResumedResultUnchanged ==
    (pc = "done" /\ savedState # Null /\ skippedSteps # <<>>) =>
        /\ \A f \in ProducedFields : outcome.value[f] = UninterruptedResult[f]
        /\ \A f \in ProducedSummaryFields :
                outcome.value.configurationSummary[f]
                    = UninterruptedResult.configurationSummary[f]

\* C4: while a run is under way or has stopped, updateStep has been called
\* once for each step that returned, in order, and the stored record is the
\* run's project's, lists each returned step once and holds the resources
\* extracted from its result; after the last step the record lists the nine
\* step names and holds the compiled result (its sensitive fields masked).
C4_RecordedAfterEachStep ==
    InRun =>
        /\ updates = finished
        /\ localStorage # Null
        /\ localStorage.projectId = config.projectId
        /\ Range(finished) \subseteq Range(localStorage.completedSteps)
        /\ Cardinality(Range(localStorage.completedSteps))
                = Len(localStorage.completedSteps)
        /\ \A s \in Range(finished) :
            LET extracted == mapResultsToResources(
                                s, StepResult(s, answers[s], config.projectId))
            IN  \A k \in DOMAIN extracted :
                    /\ k \in DOMAIN localStorage.resources
                    /\ localStorage.resources[k] = SanitizeFlat(extracted[k])
        /\ pc = "done" =>
            /\ localStorage.completedSteps = StepNames
            /\ localStorage.installResult # Null
            /\ \A k \in (DOMAIN localStorage.installResult)
                            \ (SensitiveKeys \cup {"configurationSummary"}) :
                    localStorage.installResult[k] = outcome.value[k]
            /\ \A k \in (DOMAIN localStorage.installResult.configurationSummary)
                            \ SensitiveKeys :
                    localStorage.installResult.configurationSummary[k]
                        = outcome.value.configurationSummary[k]

\* C4 witness: a run has ended after executing at least five steps, the key
\* step among them, and the record holds the key resource.
C4_Witness ==
    /\ pc = "done" /\ Len(finished) >= 5
    /\ "apiKey" \in DOMAIN localStorage.resources
    /\ answers["Generating API keys"].kind = "created"

C6_LoadSameProjectNotStale ==
    InRun =>
        /\ savedState # Null =>
                /\ prev.found # Null
                /\ savedState.projectId = config.projectId
                /\ prev.found.projectId = config.projectId
                /\ prev.at - savedState.lastUpdated <= 24
        /\ (prev.found # Null /\ prev.found.projectId = config.projectId
                /\ FoundAge <= 24) =>
                /\ savedState # Null
                /\ savedState.lastUpdated = prev.found.lastUpdated
        /\ (prev.found # Null /\ FoundAge > 24) =>
                /\ savedState = Null
                /\ localStorage # Null /\ localStorage.lastUpdated = prev.at
                /\ pc # "done" => localStorage.completedSteps = finished
        /\ savedState = Null =>
                /\ skippedSteps = <<>>
                /\ invoked = SubSeq(StepNames, 1, Decided)

\* C6 witness: a run that found a record of its project older than 24 hours
\* has ended after invoking all nine steps.
C6_Witness ==
    /\ pc = "done" /\ prev.found # Null
    /\ prev.found.projectId = config.projectId
    /\ FoundAge > 24
    /\ invoked = StepNames

\* A step's creations took effect: both functions deployed, the gateway
\* configuration ACTIVE and accepted, the key created.
Effective(answer) ==
    /\ answer.kind \notin {"configNotReady", "failed_permissions", "notCreated"}
    /\ "deviceAuth" \in DOMAIN answer =>
            answer.deviceAuth = "deployed" /\ answer.tvm = "deployed"

\* C7: a step this run recorded in completedSteps is one whose creations
\* took effect.
C7_CompletedMeansEffective ==
    (InRun /\ localStorage # Null) =>
        \A s \in Range(finished) :
            Includes(localStorage.completedSteps, s) => Effective(answers[s])

\* C11: the stored record never lists a step name twice, whatever calls of
\* install(), updateStep, save and clear led to it, re-executions of a step
\* that is already listed included.
C11_NoDuplicateSteps ==
    localStorage # Null =>
        \A i, j \in 1..Len(localStorage.completedSteps) :
            localStorage.completedSteps[i] = localStorage.completedSteps[j]
                => i = j

\* C11 witness: a step the loaded record already listed has been executed
\* again and recorded again.
C11_Witness ==
    /\ InRun /\ savedState # Null
    /\ \E s \in Range(finished) :
            /\ Includes(savedState.completedSteps, s)
            /\ Includes(localStorage.completedSteps, s)

\* The record is replaced by a fresh one (install() found none it could
\* load) or removed (clear).
RecordDiscarded == localStorage' = Null \/ (Resting /\ savedState' = Null)

\* C12: unless the record is cleared or replaced after expiry, every write
\* keeps each resource kind the record held before it: updateStep after a
\* step, and the final save.
C12_ResourcesAdditive ==
    [][(localStorage # Null /\ ~RecordDiscarded) =>
            (DOMAIN localStorage.resources)
                \subseteq (DOMAIN localStorage'.resources)]_vars

\* C12 witness: a resumed run has ended; the record it loaded held a
\* resource, and the record now holds that one and more.
C12_Witness ==
    /\ pc = "done" /\ savedState # Null
    /\ DOMAIN savedState.resources # {}
    /\ (DOMAIN savedState.resources) \subseteq (DOMAIN localStorage.resources)
    /\ DOMAIN savedState.resources # DOMAIN localStorage.resources

\* C13: a call of install() for one project leaves the record of another
\* project loadable: the record found at the call, of another project and
\* written at most 24 hours before, can still be loaded for its project at
\* that time.
C13_OtherProjectKept ==
    (InRun /\ prev.found # Null /\ prev.found.projectId # config.projectId
        /\ FoundAge <= StaleAfterHours) =>
        load(localStorage, prev.found.projectId, prev.at) # Null

(***************************************************************************)
(* Claims about gcpApiCall (checked under SpecCall)                        *)
(***************************************************************************)
IsServerError(r) == r.kind = "http" /\ r.status >= 500

IsClientError(r) == r.kind = "http" /\ r.status >= 400 /\ r.status < 500

IsNetworkError(r) == r.kind = "network"

AllResponses(P(_)) == \A i \in 1..Len(responses) : P(responses[i])

\* C8: gcpApiCall with retries = n never makes more than n attempts; while
\* every answer is a 5xx (or every fetch fails at the network level) the call
\* neither returns nor raises before the n-th attempt and raises at the n-th;
\* an attempt that succeeds ends the call with that attempt's payload, and
\* the call returns in no other way.
C8_RetryBound ==
    /\ Len(responses) <= retries
    /\ (AllResponses(IsServerError) \/ AllResponses(IsNetworkError)) =>
          /\ callPc # "returned"
          /\ (callPc = "thrown") <=> (Len(responses) = retries)
          /\ callPc = "fetch" => attempt = Len(responses) + 1
    /\ (callPc = "thrown" /\ AllResponses(IsServerError)) =>
          callResult = [kind |-> "apiError", status |-> Last(responses).status]
    /\ (callPc = "thrown" /\ AllResponses(IsNetworkError)) =>
          callResult = [kind |-> "networkError"]
    /\ (responses # <<>> /\ Last(responses).kind = "ok") =>
          /\ callPc = "returned"
          /\ callResult = [kind |-> "payload", payload |-> Last(responses).payload]
    /\ callPc = "returned" => (responses # <<>> /\ Last(responses).kind = "ok")

\* C8 witness: the third of three attempts succeeds after a 5xx answer and a
\* network failure, and its payload is returned.
C8_Witness ==
    /\ retries = 3 /\ Len(responses) = 3
    /\ IsServerError(responses[1]) /\ IsNetworkError(responses[2])
    /\ callPc = "returned" /\ callResult.payload = "payloadB"

\* C9: a 4xx answer is terminal: it is the last attempt of the call, whatever
\* number of attempts remain, and the call raises an error carrying its status.
C9_ClientErrorTerminal ==
    \A i \in 1..Len(responses) :
        IsClientError(responses[i]) =>
            /\ i = Len(responses)
            /\ callPc = "thrown"
            /\ callResult = [kind |-> "apiError", status |-> responses[i].status]

\* C10: the wait after failed attempt k (k < retries) is k x 2000 ms, the
\* waits strictly increase, no wait follows the attempt that ends the call;
\* the deadline of attempt i+1 is min(1.5 x deadline of attempt i, 600000)
\* after a timed-out attempt i and the deadline of attempt i otherwise, so
\* deadlines never decrease and never exceed 600000 ms.
C10_RetrySchedule ==
    /\ \A k \in 1..Len(delays) : delays[k] = k * 2000
    /\ \A k \in 1..(Len(delays) - 1) : delays[k] < delays[k + 1]
    /\ Len(delays) = attempt - 1
    /\ callPc = "fetch" => Len(delays) = Len(responses)
    /\ callPc \in {"returned", "thrown"} => Len(delays) = Len(responses) - 1
    /\ Len(deadlines) = Len(responses)
    /\ \A i \in 1..Len(deadlines) : deadlines[i] <= 600000
    /\ \A i \in 1..(Len(deadlines) - 1) :
          /\ deadlines[i] <= deadlines[i + 1]
          /\ IF responses[i].kind = "abort"
             THEN 2 * deadlines[i + 1] = Min(3 * deadlines[i], 2 * 600000)
             ELSE deadlines[i + 1] = deadlines[i]
    /\ (callPc = "fetch" /\ Len(deadlines) > 0) =>
          timeoutMs = IF Last(responses).kind = "abort"
                      THEN Min((3 * Last(deadlines)) \div 2, 600000)
                      ELSE Last(deadlines)
    /\ (callPc # "fetch" /\ Len(deadlines) > 0) => timeoutMs = Last(deadlines)

\* C10 witness: two waits have been made (2000 then 4000 ms), a timed-out
\* attempt raised the deadline from 300000 to 450000 ms and a second one
\* brought it to the 600000 ms cap.
C10_Witness ==
    /\ delays = <<2000, 4000>>
    /\ deadlines = <<300000, 450000, 600000>>
    /\ responses[1].kind = "abort" /\ responses[2].kind = "abort"

(***************************************************************************)
(* IAM policy grants: grantIAMRoles (gcp-installer.ts:644-746) and         *)
(* grantAPIGatewayPermissions (1096-1149)                                  *)
(*                                                                         *)
(* A policy is the array `bindings` of the provider's document; a binding  *)
(* has a role, an array of members and, if conditional, a condition.  Each *)
(* grant is a getIamPolicy call, a merge in memory and a setIamPolicy call *)
(* that replaces the document; the two calls of a grant are separate       *)
(* actions, and several installers (browser sessions of the same project)  *)
(* may be between them at once.                                            *)
(***************************************************************************)
NumInstallers == 2

Installers == 1..NumInstallers

PolicyProject == "proj-a"

\* string.includes(sub)
Contains(s, sub) ==
    \E i \in 1..(Len(s) - Len(sub) + 1) : SubSeq(s, i, i + Len(sub) - 1) = sub

\* `${value}` in a template literal
ToText(value) == IF value = UNDEFINED THEN "undefined" ELSE value

\* lines 653-656: members naming an unresolved identity are removed, and
\* bindings left without members are dropped
CleanPolicy(bindings) ==
    LET WellFormed(m) == ~Contains(m, "undefined")
        cleaned == [i \in 1..Len(bindings) |->
                        [bindings[i] EXCEPT !.members = SelectSeq(@, WellFormed)]]
        NonEmpty(b) == Len(b.members) > 0
    IN  SelectSeq(cleaned, NonEmpty)

\* policy.bindings.find(b => b.role === role): the position of the first
\* binding of the role, 0 if there is none
FindBinding(bindings, role) ==
    IF \E i \in 1..Len(bindings) : bindings[i].role = role
    THEN CHOOSE i \in 1..Len(bindings) :
            /\ bindings[i].role = role
            /\ \A j \in 1..(i - 1) : bindings[j].role # role
    ELSE 0

\* Mutant of MergeMember: the member list of an existing binding is replaced.
MergeMember_Replaces(bindings, role, member) ==
    LET at == FindBinding(bindings, role)
    IN  IF at # 0
        THEN [bindings EXCEPT ![at].members = <<member>>]
        ELSE Append(bindings, [role |-> role, members |-> <<member>>])

\* lines 665-675 (and 1116-1128, 725-736): the member is pushed onto the
\* role's binding unless it is there, or a binding is pushed for it
MergeMember(bindings, role, member) ==
    LET at == FindBinding(bindings, role)
    IN  IF at # 0
        THEN IF Includes(bindings[at].members, member)
             THEN bindings
             ELSE [bindings EXCEPT ![at].members = Append(@, member)]
        ELSE Append(bindings, [role |-> role, members |-> <<member>>])

\* addRoleBinding (lines 659-676)
addRoleBinding(bindings, role, member) ==
    IF ~Truthy(member) \/ Contains(member, "undefined")
    THEN bindings
    ELSE MergeMember(bindings, role, member)

\* The roles of lines 680-684, 688-691, 695-697 and 701, in call order.
VertexRoles ==
    << "roles/aiplatform.user", "roles/storage.objectAdmin",
       "roles/datastore.user", "roles/iam.workloadIdentityUser",
       "roles/logging.logWriter" >>

DeviceAuthRoles ==
    << "roles/cloudfunctions.invoker", "roles/firebaseauth.admin",
       "roles/logging.logWriter", "roles/iam.serviceAccountTokenCreator" >>

TvmRoles ==
    << "roles/cloudfunctions.invoker", "roles/iam.serviceAccountTokenCreator",
       "roles/logging.logWriter" >>

InvokerRoles == << "roles/logging.logWriter" >>

\* `serviceAccount:${email}`
SaMember(email) == "serviceAccount:" \o ToText(email)

\* The addRoleBinding calls of one `if (serviceAccounts.<key>)` block
GrantsFor(serviceAccounts, key, roles) ==
    IF Truthy(Get(serviceAccounts, key))
    THEN [i \in 1..Len(roles) |->
            [role |-> roles[i], member |-> SaMember(serviceAccounts[key])]]
    ELSE <<>>

\* lines 679-702: the addRoleBinding calls grantIAMRoles makes, in order
RoleGrants(serviceAccounts) ==
    GrantsFor(serviceAccounts, "vertex_ai_sa_email", VertexRoles)
        \o GrantsFor(serviceAccounts, "device_auth_sa_email", DeviceAuthRoles)
        \o GrantsFor(serviceAccounts, "tvm_sa_email", TvmRoles)
        \o GrantsFor(serviceAccounts, "apigw_invoker_sa_email", InvokerRoles)

RECURSIVE ApplyGrants(_, _, _)
\* The grants applied one after the other, through addRoleBinding (which
\* screens the member) or through the bare merge
ApplyGrants(bindings, grants, screened) ==
    IF grants = <<>> THEN bindings
    ELSE ApplyGrants(
            IF screened
            THEN addRoleBinding(bindings, Head(grants).role, Head(grants).member)
            ELSE MergeMember(bindings, Head(grants).role, Head(grants).member),
            Tail(grants), screened)

\* grantIAMRoles, lines 653-702: the policy document it sends back
MergedProjectPolicy(fetched, serviceAccounts) ==
    ApplyGrants(CleanPolicy(fetched), RoleGrants(serviceAccounts), TRUE)

\* lines 1100, 1117
GatewayAgentMember(projectNumber) ==
    "serviceAccount:service-" \o ToText(projectNumber)
        \o "@gcp-sa-apigateway.iam.gserviceaccount.com"

\* lines 1110-1113
GatewayAgentRoles ==
    << "roles/servicemanagement.serviceController",
       "roles/servicemanagement.configEditor" >>

GatewayGrants(projectNumber) ==
    [i \in 1..Len(GatewayAgentRoles) |->
        [role |-> GatewayAgentRoles[i], member |-> GatewayAgentMember(projectNumber)]]

\* A gateway grant that sends its own bindings alone.
MergedGatewayPolicy_Fresh(fetched, projectNumber) ==
    ApplyGrants(SubSeq(fetched, 1, 0), GatewayGrants(projectNumber), FALSE)

\* grantAPIGatewayPermissions, lines 1115-1129: the document it sends back
MergedGatewayPolicy(fetched, projectNumber) ==
    ApplyGrants(fetched, GatewayGrants(projectNumber), FALSE)

TokenCreatorRole == "roles/iam.serviceAccountTokenCreator"

\* grantIAMRoles, lines 713-745: the policy of the Vertex AI service account
\* after the impersonation grant (unchanged when the branch is not taken)
ImpersonationPolicy(saPolicy, serviceAccounts) ==
    IF Truthy(Get(serviceAccounts, "tvm_sa_email"))
        /\ Truthy(Get(serviceAccounts, "vertex_ai_sa_email"))
    THEN Assign(saPolicy,
            [bindings |->
                MergeMember(IF "bindings" \in DOMAIN saPolicy
                            THEN saPolicy.bindings ELSE <<>>,
                            TokenCreatorRole,
                            SaMember(serviceAccounts.tvm_sa_email))])
    ELSE saPolicy

\* What getIamPolicy may answer for the project when a grant starts: the
\* owner's binding; a binding of a role the installer grants, held by someone
\* else; one already holding the member the installer adds; bindings with a
\* member left by an unresolved identity; a conditional binding.
OwnerBinding == [role |-> "roles/owner", members |-> <<"user:owner@example.com">>]

OtherMember == "serviceAccount:ci@" \o PolicyProject \o ".iam.gserviceaccount.com"

InitialPolicies ==
    { <<OwnerBinding>>,
      <<OwnerBinding,
        [role |-> "roles/logging.logWriter", members |-> <<OtherMember>>]>>,
      <<[role |-> TokenCreatorRole,
         members |-> <<SaMember(SaEmail("tvm-sa", PolicyProject)), OtherMember>>],
        OwnerBinding>>,
      <<OwnerBinding,
        [role |-> "roles/cloudfunctions.invoker",
         members |-> <<"serviceAccount:undefined">>]>>,
      <<[role |-> "roles/editor",
         members |-> <<GatewayAgentMember(UNDEFINED), OtherMember>>],
        OwnerBinding>>,
      <<OwnerBinding,
        [role |-> "roles/servicemanagement.configEditor",
         members |-> <<OtherMember>>,
         condition |-> "request.time < timestamp('2030-01-01T00:00:00Z')"]>> }

\* What getIamPolicy may answer for the Vertex AI service account: a
\* document without bindings, or one with a token-creator binding.
InitialSaPolicies ==
    { [version |-> "1"],
      [version |-> "1",
       bindings |-> <<[role |-> TokenCreatorRole, members |-> <<OtherMember>>]>>] }

NoGrant == [kind |-> "none", doc |-> <<>>, grants |-> <<>>]

\* grantFunctionInvokerPermissions, line 1024
InvokerMember == "serviceAccount:" \o SaEmail("apigw-invoker-sa", PolicyProject)

\* grantFunctionInvokerPermissions, lines 1030-1037: the policy it sends
InvokerPolicy ==
    <<[role |-> "roles/cloudfunctions.invoker", members |-> <<InvokerMember>>]>>

\* The policy of the function when the grant is made, after the deployment
\* operation of lines 984-998 has completed: without bindings, or with a
\* binding that was given on the function in the meantime.
InitialFunctionPolicies ==
    { <<>>,
      <<[role |-> "roles/cloudfunctions.invoker", members |-> <<OtherMember>>]>> }

NoFunctionGrant == [kind |-> "none", read |-> FALSE, before |-> <<>>, doc |-> <<>>]

InitGrant ==
    /\ KeysParked
    /\ TokenParked
    /\ EarlyParked
    /\ PollParked
    /\ CallParked /\ InstallParked /\ PrereqParked /\ PayloadParked
    /\ CreateParked /\ RerunParked
    /\ projectPolicy \in InitialPolicies
    /\ vertexSaPolicy \in InitialSaPolicies
    /\ grantPc = [i \in Installers |-> "idle"]
    /\ grantArg = [i \in Installers |->
                    [serviceAccounts |-> EmptyObj, projectNumber |-> UNDEFINED]]
    /\ grantFetched = [i \in Installers |-> <<>>]
    /\ grantWritten = [i \in Installers |-> NoGrant]
    /\ functionPolicy \in InitialFunctionPolicies
    /\ functionGrant = NoFunctionGrant

\* grantIAMRoles, lines 647-650, called at line 639 with the object
\* createServiceAccounts built
ReadForRoles(i) ==
    /\ grantPc[i] = "idle"
    /\ grantPc' = [grantPc EXCEPT ![i] = "rolesFetched"]
    /\ grantArg' = [grantArg EXCEPT ![i].serviceAccounts =
            StepResult("Creating service accounts", [kind |-> "ok"], PolicyProject)]
    /\ grantFetched' = [grantFetched EXCEPT ![i] = projectPolicy]
    /\ UNCHANGED <<projectPolicy, vertexSaPolicy, grantWritten,
                   functionPolicy, functionGrant>>

\* grantIAMRoles, lines 653-710
WriteRoles(i) ==
    /\ grantPc[i] = "rolesFetched"
    /\ LET doc == MergedProjectPolicy(grantFetched[i], grantArg[i].serviceAccounts)
       IN  /\ projectPolicy' = doc
           /\ grantWritten' = [grantWritten EXCEPT ![i] =
                    [kind |-> "roles", doc |-> doc,
                     grants |-> RoleGrants(grantArg[i].serviceAccounts)]]
    /\ grantPc' = [grantPc EXCEPT ![i] = "rolesWritten"]
    /\ UNCHANGED <<vertexSaPolicy, grantArg, grantFetched,
                   functionPolicy, functionGrant>>

\* grantIAMRoles, lines 712-746: the impersonation grant on the Vertex AI
\* service account's own policy, when its condition holds
GrantImpersonation(i) ==
    /\ grantPc[i] = "rolesWritten"
    /\ vertexSaPolicy' = ImpersonationPolicy(vertexSaPolicy, grantArg[i].serviceAccounts)
    /\ grantPc' = [grantPc EXCEPT ![i] = "done"]
    /\ UNCHANGED <<projectPolicy, grantArg, grantFetched, grantWritten,
                   functionPolicy, functionGrant>>

\* grantAPIGatewayPermissions, lines 1100-1107; this.config.projectNumber is
\* set by validateProject and is undefined in a run that skipped that step
ReadForGateway(i, projectNumber) ==
    /\ grantPc[i] = "idle"
    /\ grantPc' = [grantPc EXCEPT ![i] = "gatewayFetched"]
    /\ grantArg' = [grantArg EXCEPT ![i].projectNumber = projectNumber]
    /\ grantFetched' = [grantFetched EXCEPT ![i] = projectPolicy]
    /\ UNCHANGED <<projectPolicy, vertexSaPolicy, grantWritten,
                   functionPolicy, functionGrant>>

\* grantAPIGatewayPermissions, lines 1109-1143
WriteGateway(i) ==
    /\ grantPc[i] = "gatewayFetched"
    /\ LET doc == MergedGatewayPolicy(grantFetched[i], grantArg[i].projectNumber)
       IN  /\ projectPolicy' = doc
           /\ grantWritten' = [grantWritten EXCEPT ![i] =
                    [kind |-> "gateway", doc |-> doc,
                     grants |-> GatewayGrants(grantArg[i].projectNumber)]]
    /\ grantPc' = [grantPc EXCEPT ![i] = "done"]
    /\ UNCHANGED <<vertexSaPolicy, grantArg, grantFetched,
                   functionPolicy, functionGrant>>

\* The setIamPolicy call fails after its retries: grantIAMRoles lets the
\* error through (line 704), grantAPIGatewayPermissions logs it (line 1145)
WriteFails(i) ==
    /\ grantPc[i] \in {"rolesFetched", "gatewayFetched"}
    /\ grantPc' = [grantPc EXCEPT ![i] = "failed"]
    /\ UNCHANGED <<projectPolicy, vertexSaPolicy, grantArg, grantFetched,
                   grantWritten, functionPolicy, functionGrant>>

\* grantFunctionInvokerPermissions, lines 1023-1047, called at line 1010 by
\* the installer that created the function: one setIamPolicy call, with no
\* getIamPolicy before it
GrantFunctionInvoker ==
    /\ functionGrant.kind = "none"
    /\ functionPolicy' = InvokerPolicy
    /\ functionGrant' = [kind |-> "function", read |-> FALSE,
                         before |-> functionPolicy, doc |-> InvokerPolicy]
    /\ UNCHANGED <<projectPolicy, vertexSaPolicy, grantPc, grantArg, grantFetched,
                   grantWritten>>

NextGrant ==
    /\ UNCHANGED <<callVars, installVars, prereqVars, payloadVars, createVars, rerunVars,
                   pollVars,
                   earlyVars,
                   tokenVars,
                   keysVars>>
    /\ \/ \E i \in Installers :
            \/ ReadForRoles(i)
            \/ WriteRoles(i)
            \/ GrantImpersonation(i)
            \/ \E n \in {ProviderProjectNumber(PolicyProject), UNDEFINED} :
                    ReadForGateway(i, n)
            \/ WriteGateway(i)
            \/ WriteFails(i)
       \/ GrantFunctionInvoker

SpecGrant == InitGrant /\ [][NextGrant]_vars

(***************************************************************************)
(* Claims about the policy grants (checked under SpecGrant)                *)
(***************************************************************************)
\* The member is held under the role in the document.
Bound(doc, role, member) ==
    \E k \in 1..Len(doc) : doc[k].role = role /\ Includes(doc[k].members, member)

\* The installers that have sent a policy document for the project.
Writers == {i \in Installers : grantWritten[i].kind # "none"}

\* The grants of a write whose member names a resolved identity; the
\* gateway grant does not screen its member.
RequestedGrants(i) ==
    {g \in Range(grantWritten[i].grants) :
        grantWritten[i].kind = "gateway" \/ ~Contains(g.member, "undefined")}

\* C14: the document sent by a grant still binds every well-formed member
\* of the fetched policy under its role and condition, binds each granted
\* member under its role, carries the bindings of roles the grant does not
\* mention as they were (less the malformed members grantIAMRoles strips),
\* and lists no member twice in a binding.
C14_AdditiveMerge ==
    \A i \in Writers :
        LET fetched == grantFetched[i]
            doc == grantWritten[i].doc
            mentioned == {g.role : g \in Range(grantWritten[i].grants)}
        IN  /\ \A k \in 1..Len(fetched) :
                 \A m \in Range(fetched[k].members) :
                    ~Contains(m, "undefined") =>
                        \E n \in 1..Len(doc) :
                            /\ doc[n].role = fetched[k].role
                            /\ Get(doc[n], "condition") = Get(fetched[k], "condition")
                            /\ Includes(doc[n].members, m)
            /\ \A g \in RequestedGrants(i) : Bound(doc, g.role, g.member)
            /\ \A k \in 1..Len(fetched) :
                 fetched[k].role \notin mentioned =>
                    \/ fetched[k] \in Range(doc)
                    \/ /\ grantWritten[i].kind = "roles"
                       /\ \E m \in Range(fetched[k].members) : Contains(m, "undefined")
                       /\ \A n \in 1..Len(doc) :
                            doc[n].role = fetched[k].role =>
                                Range(doc[n].members) \subseteq Range(fetched[k].members)
            /\ \A n \in 1..Len(doc) :
                 Cardinality(Range(doc[n].members)) = Len(doc[n].members)

\* C14 witness: a grant has been written over a fetched policy in which a
\* granted role was already bound to another member; both are bound now.
C14_Witness ==
    \E i \in Writers :
        \E g \in RequestedGrants(i) :
            /\ Bound(grantFetched[i], g.role, OtherMember)
            /\ ~Bound(grantFetched[i], g.role, g.member)
            /\ Bound(grantWritten[i].doc, g.role, OtherMember)
            /\ Bound(grantWritten[i].doc, g.role, g.member)

\* The roles listed for each service account (lines 679-702).
RolesOf(id) ==
    CASE id = "vertex-ai-sa" -> VertexRoles
      [] id = "device-auth-sa" -> DeviceAuthRoles
      [] id = "tvm-sa" -> TvmRoles
      [] id = "apigw-invoker-sa" -> InvokerRoles

\* C15: the project policy written by 'Creating service accounts' binds each
\* of the four service accounts to every role listed for it.
C15_AllAccountsBound ==
    \A i \in Writers :
        grantWritten[i].kind = "roles" =>
            \A id \in ServiceAccountIds :
                \A role \in Range(RolesOf(id)) :
                    Bound(grantWritten[i].doc, role,
                          SaMember(SaEmail(id, PolicyProject)))

\* C16: once grantIAMRoles has returned, the TVM service account is a token
\* creator on the Vertex AI service account's own policy.
C16_TvmImpersonatesVertex ==
    \A i \in Installers :
        (grantPc[i] = "done" /\ grantWritten[i].kind = "roles") =>
            /\ "bindings" \in DOMAIN vertexSaPolicy
            /\ Bound(vertexSaPolicy.bindings, TokenCreatorRole,
                     SaMember(SaEmail("tvm-sa", PolicyProject)))

(***************************************************************************)
(* Text, bytes and base64.  A text is a TLA+ string; the characters the    *)
(* prerequisite texts are made of are the printable ASCII ones, one byte   *)
(* each in UTF-8.                                                          *)
(***************************************************************************)

\* The printable ASCII characters in code order, from the blank (code 32); the grave
\* accent (code 96) appears in none of the texts and is left as a blank.
AsciiTable ==
    " !\"#$%&'()*+,-./0123456789:;<=>?@ABCDEFGHIJKLMNOPQRSTUVWXYZ[\\]^_ abcdefghijklmnopqrstuvwxyz{|}~"

CharAt(s, i) == SubSeq(s, i, i)

Chars(s) == [i \in 1..Len(s) |-> CharAt(s, i)]

\* charCodeAt for the characters of AsciiTable
CodeOf ==
    [c \in {CharAt(AsciiTable, k) : k \in 1..Len(AsciiTable)} |->
        31 +
        (CHOOSE k \in 1..Len(AsciiTable) :
            /\ CharAt(AsciiTable, k) = c
            /\ \A j \in 1..(k - 1) : CharAt(AsciiTable, j) # c)]

IsPrintable(b) == b >= 32 /\ b < 32 + Len(AsciiTable) /\ b # 96

\* The replacement character U+FFFD, which no text of the installer holds.
ReplacementChar == "\\uFFFD"

\* Array.prototype.join(''): the pieces of a sequence of texts, in order
RECURSIVE JoinRange(_, _, _)
JoinRange(pieces, lo, hi) ==
    IF lo > hi THEN ""
    ELSE IF lo = hi THEN pieces[lo]
    ELSE LET mid == (lo + hi) \div 2
         IN  JoinRange(pieces, lo, mid) \o JoinRange(pieces, mid + 1, hi)

Join(pieces) == JoinRange(pieces, 1, Len(pieces))

\* Buffer.from(text): the UTF-8 bytes of a text of ASCII characters
Utf8Bytes(text) == [i \in 1..Len(text) |-> CodeOf[CharAt(text, i)]]

\* buf.toString('utf-8'): a byte that is no printable ASCII character is
\* shown as the replacement character (bytes below 32 and sequences of
\* bytes above 127 decode to characters no prerequisite text holds either).
Utf8Text(bytes) ==
    Join([i \in 1..Len(bytes) |->
            IF IsPrintable(bytes[i])
            THEN CharAt(AsciiTable, bytes[i] - 31)
            ELSE ReplacementChar])

Base64Alphabet ==
    "ABCDEFGHIJKLMNOPQRSTUVWXYZabcdefghijklmnopqrstuvwxyz0123456789+/"

Base64Char(v) == CharAt(Base64Alphabet, v + 1)

\* buf.toString('base64')
Base64Encode(bytes) ==
    LET n == Len(bytes)
        B(i) == IF i <= n THEN bytes[i] ELSE 0
        Group(g) ==
            LET b1 == B(3 * g - 2)
                b2 == B(3 * g - 1)
                b3 == B(3 * g)
            IN  Base64Char(b1 \div 4)
                \o Base64Char((b1 % 4) * 16 + (b2 \div 16))
                \o (IF 3 * g - 1 <= n
                    THEN Base64Char((b2 % 16) * 4 + (b3 \div 64)) ELSE "=")
                \o (IF 3 * g <= n THEN Base64Char(b3 % 64) ELSE "=")
    IN  Join([g \in 1..((n + 2) \div 3) |-> Group(g)])

\* The value of a character of base64 text; '-' and '_' are read as '+' and
\* '/'.  Every other character has none.
SextetOf ==
    [c \in {CharAt(Base64Alphabet, k) : k \in 1..64} \cup {"-", "_"} |->
        IF c = "-" THEN 62
        ELSE IF c = "_" THEN 63
        ELSE (CHOOSE k \in 1..64 : CharAt(Base64Alphabet, k) = c) - 1]

RECURSIVE SelectRange(_, _, _, _)
\* the entries of seq[lo..hi] that are in the set `keep`, in order
SelectRange(seq, keep, lo, hi) ==
    IF lo > hi THEN <<>>
    ELSE IF lo = hi THEN (IF seq[lo] \in keep THEN <<seq[lo]>> ELSE <<>>)
    ELSE LET mid == (lo + hi) \div 2
         IN  SelectRange(seq, keep, lo, mid) \o SelectRange(seq, keep, mid + 1, hi)

\* Buffer.from(text, 'base64'): decoding ends at the first '='; characters
\* outside the alphabet are skipped; a last group of two or three
\* characters gives one or two bytes, a single left-over character none.
Base64Decode(text) ==
    LET cs    == Chars(text)
        stops == {i \in 1..Len(cs) : cs[i] = "="}
        end   == IF stops = {} THEN Len(cs)
                 ELSE (CHOOSE i \in stops : \A j \in stops : i <= j) - 1
        kept  == SelectRange(cs, DOMAIN SextetOf, 1, end)
        m     == Len(kept)
        S(i)  == SextetOf[kept[i]]
        nbytes == 3 * (m \div 4) +
                  (CASE m % 4 = 2 -> 1 [] m % 4 = 3 -> 2 [] OTHER -> 0)
        Byte(k) ==
            LET g == (k - 1) \div 3
                r == (k - 1) % 3
            IN  CASE r = 0 -> S(4 * g + 1) * 4 + (S(4 * g + 2) \div 16)
                  [] r = 1 -> (S(4 * g + 2) % 16) * 16 + (S(4 * g + 3) \div 4)
                  [] r = 2 -> (S(4 * g + 3) % 4) * 64 + S(4 * g + 4)
    IN  [k \in 1..nbytes |-> Byte(k)]

\* String.prototype.indexOf, 0 when absent, positions from 1
IndexOfText(s, sub, from) ==
    LET m == Len(sub)
        P == {i \in from..(Len(s) - m + 1) : SubSeq(s, i, i + m - 1) = sub}
    IN  IF P = {} THEN 0 ELSE CHOOSE i \in P : \A j \in P : i <= j

\* String.prototype.trim, for the blank
RECURSIVE TrimText(_)
TrimText(s) ==
    IF s = "" THEN s
    ELSE IF CharAt(s, 1) = " " THEN TrimText(SubSeq(s, 2, Len(s)))
    ELSE IF CharAt(s, Len(s)) = " " THEN TrimText(SubSeq(s, 1, Len(s) - 1))
    ELSE s

(***************************************************************************)
(* sanitizeString and JSON.stringify (lib/input-sanitizer), as applied to  *)
(* the message of a failed installation.                                   *)
(***************************************************************************)

\* A sanitizer that escapes the equals sign as well.
EscapeHtml_AlsoEquals(c) ==
    CASE c = "<"  -> "&lt;"
      [] c = ">"  -> "&gt;"
      [] c = "\"" -> "&quot;"
      [] c = "'"  -> "&#x27;"
      [] c = "/"  -> "&#x2F;"
      [] c = "="  -> "&#x3D;"
      [] OTHER    -> c

\* The five replacements of sanitizeString.  No replacement text holds a
\* character a later replacement looks for, so the chain of replace calls
\* is a character by character substitution.
EscapeHtml(c) ==
    CASE c = "<"  -> "&lt;"
      [] c = ">"  -> "&gt;"
      [] c = "\"" -> "&quot;"
      [] c = "'"  -> "&#x27;"
      [] c = "/"  -> "&#x2F;"
      [] OTHER    -> c

sanitizeString(input) ==
    TrimText(Join([i \in 1..Len(input) |-> EscapeHtml(CharAt(input, i))]))

\* sanitizeErrorMessage of an Error with this message
sanitizeErrorMessage(message) == sanitizeString(message)

\* JSON.stringify of a string: quotes and backslashes are escaped
JSONQuote(s) ==
    "\"" \o Join([i \in 1..Len(s) |->
                    CASE CharAt(s, i) = "\"" -> "\\\""
                      [] CharAt(s, i) = "\\" -> "\\\\"
                      [] OTHER -> CharAt(s, i)]) \o "\""

\* join(',')
JoinComma(pieces) ==
    Join([i \in 1..Len(pieces) |->
            IF i = 1 THEN pieces[i] ELSE "," \o pieces[i]])

\* JSON.stringify of one entry of missingSteps: the keys in insertion order
JSONStep(step) ==
    "{\"name\":" \o JSONQuote(step.name)
    \o ",\"description\":" \o JSONQuote(step.description)
    \o ",\"action\":" \o JSONQuote(step.action)
    \o (IF "steps" \in DOMAIN step
        THEN ",\"steps\":["
             \o JoinComma([i \in 1..Len(step.steps) |-> JSONQuote(step.steps[i])])
             \o "]"
        ELSE "")
    \o "}"

JSONStringify(list) ==
    "[" \o JoinComma([i \in 1..Len(list) |-> JSONStep(list[i])]) \o "]"

(***************************************************************************)
(* checkPrerequisites (gcp-installer.ts:247-402).                          *)
(***************************************************************************)

\* const prerequisites (lines 250-258)
NoPrerequisites ==
    [firebaseEnabled |-> FALSE, storageEnabled |-> FALSE,
     firestoreEnabled |-> FALSE, authConfigured |-> FALSE,
     emailPasswordEnabled |-> FALSE, hasAuthUsers |-> FALSE]

ConsoleUrl(projectId) ==
    "https://console.firebase.google.com/project/" \o projectId

StepEnableFirebase(projectId) ==
    [name |-> "Enable Firebase",
     description |-> "Firebase must be enabled for authentication and storage",
     action |-> "Open Firebase Console: " \o ConsoleUrl(projectId)
                \o "/overview and click \"Get started\""]

StepStorage(projectId) ==
    [name |-> "Set up Firebase Storage",
     description |-> "Firebase Storage bucket must be created manually for image uploads",
     action |-> "Open Firebase Storage: " \o ConsoleUrl(projectId)
                \o "/storage and click \"Get started\", then choose your storage location"]

StepFirestore(projectId) ==
    [name |-> "Create Firestore Database",
     description |-> "Firestore database must be created manually to choose region and security rules. IMPORTANT: Leave database name as \"(default)\" - do not change it! For security, choose \"Production mode\" rules.",
     action |-> "Open Firestore Console: " \o ConsoleUrl(projectId)
                \o "/firestore and click \"Create database\". Keep database name as \"(default)\""]

StepInitAuth(projectId) ==
    [name |-> "Initialize Firebase Authentication",
     description |-> "Firebase Authentication must be initialized to enable user authentication",
     action |-> "Open Firebase Auth: " \o ConsoleUrl(projectId)
                \o "/authentication and click \"Get started\""]

StepEmailPassword(projectId) ==
    [name |-> "Enable Email/Password Sign-in",
     description |-> "Email/Password authentication must be enabled for device authentication to work",
     action |-> "Go to Firebase Auth Settings: " \o ConsoleUrl(projectId)
                \o "/authentication/providers and enable \"Email/Password\" sign-in method",
     steps |-> << "1. Click on \"Email/Password\" in the providers list",
                  "2. Toggle \"Enable\" switch to ON",
                  "3. Click \"Save\"" >>]

StepTestUser(projectId) ==
    [name |-> "Create a Test User",
     description |-> "At least one Firebase Auth user is required for testing the authentication flow",
     action |-> "Go to Firebase Auth Users: " \o ConsoleUrl(projectId)
                \o "/authentication/users and add a test user",
     steps |-> << "1. Click \"Add user\" button",
                  "2. Enter a test email (e.g., test@example.com)",
                  "3. Enter a secure password",
                  "4. Click \"Add user\"",
                  "5. Save these credentials for testing the device authentication flow" >>]

\* Passing without looking at the users.
AnyMissing_IgnoresUsers(p) ==
    \/ ~p.firebaseEnabled \/ ~p.storageEnabled \/ ~p.firestoreEnabled
    \/ ~p.authConfigured \/ ~p.emailPasswordEnabled

\* the condition of lines 332-333
AnyMissing(p) ==
    \/ ~p.firebaseEnabled \/ ~p.storageEnabled \/ ~p.firestoreEnabled
    \/ ~p.authConfigured \/ ~p.emailPasswordEnabled \/ ~p.hasAuthUsers

PushIf(cond, list, step) == IF cond THEN Append(list, step) ELSE list

\* A list builder that reports every unmet condition, whatever came before.
MissingSteps_Flat(p, projectId) ==
    LET m1 == PushIf(~p.firebaseEnabled, <<>>, StepEnableFirebase(projectId))
        m2 == PushIf(~p.storageEnabled, m1, StepStorage(projectId))
        m3 == PushIf(~p.firestoreEnabled, m2, StepFirestore(projectId))
        m4 == PushIf(~p.authConfigured, m3, StepInitAuth(projectId))
        m5 == PushIf(~p.emailPasswordEnabled, m4, StepEmailPassword(projectId))
    IN  PushIf(~p.hasAuthUsers, m5, StepTestUser(projectId))

\* const missingSteps, after the six pushes of lines 336-394
MissingSteps(p, projectId) ==
    LET m1 == PushIf(~p.firebaseEnabled, <<>>, StepEnableFirebase(projectId))
        m2 == PushIf(~p.storageEnabled, m1, StepStorage(projectId))
        m3 == PushIf(~p.firestoreEnabled, m2, StepFirestore(projectId))
        m4 == PushIf(p.firebaseEnabled /\ ~p.authConfigured, m3,
                     StepInitAuth(projectId))
        m5 == PushIf(p.authConfigured /\ ~p.emailPasswordEnabled, m4,
                     StepEmailPassword(projectId))
    IN  PushIf(p.emailPasswordEnabled /\ ~p.hasAuthUsers, m5,
               StepTestUser(projectId))

PrerequisitesMarker == "PREREQUISITES_MISSING:"

\* lines 397-398: the message of the Error thrown
EncodeSteps(missingSteps) ==
    PrerequisitesMarker \o Base64Encode(Utf8Bytes(JSONStringify(missingSteps)))

\* How a gcpApiCall of checkPrerequisites can end: with the parsed body of
\* the answer, or with the Error it throws once its attempts are used up.
ReadFailures ==
    {[error |-> e] :
        e \in {"http401", "http403", "http404", "http500", "network", "timeout"}}

\* Bodies of the three existence reads (lines 262-290); only their arrival
\* matters to the code.
ResourceBodies == {EmptyObj}

EmailEnabledConfig == [signIn |-> [email |-> [enabled |-> "true"]]]

EmailDisabledConfig == [signIn |-> [email |-> [enabled |-> "false"]]]

\* Bodies of GET .../config (line 296)
AuthConfigBodies == {Null, EmptyObj, EmailDisabledConfig, EmailEnabledConfig}

OneUser == [userInfo |-> <<"user-1">>]

NoUsers == [userInfo |-> <<>>]

\* Bodies of POST .../accounts:query (line 310)
UsersBodies == {Null, EmptyObj, NoUsers, OneUser}

IsFailure(answer) == "error" \in DOMAIN answer

\* authConfig.signIn?.email?.enabled === true, for a body that is an object
EmailEnabled(authConfig) ==
    /\ "signIn" \in DOMAIN authConfig
    /\ authConfig.signIn.email.enabled = JSTRUE

\* users.userInfo && users.userInfo.length > 0, for a body that is an object
HasUsers(users) ==
    /\ "userInfo" \in DOMAIN users
    /\ Len(users.userInfo) > 0

InitPrereq ==
    /\ KeysParked
    /\ TokenParked
    /\ EarlyParked
    /\ PollParked
    /\ CallParked /\ InstallParked /\ PolicyParked /\ PayloadParked
    /\ CreateParked /\ RerunParked
    /\ prereqPc = "firebase"
    /\ prereqProject \in Projects
    /\ prerequisites = NoPrerequisites
    /\ prereqReads = <<>>
    /\ prereqOutcome = [kind |-> "pending"]

Noted(check, answer) == Append(prereqReads, [check |-> check, answer |-> answer])

\* lines 260-268
CheckFirebase(answer) ==
    /\ prereqPc = "firebase"
    /\ prerequisites' = [prerequisites EXCEPT !.firebaseEnabled = ~IsFailure(answer)]
    /\ prereqReads' = Noted("firebase", answer)
    /\ prereqPc' = "storage"
    /\ UNCHANGED <<prereqProject, prereqOutcome>>

\* lines 270-279
CheckStorage(answer) ==
    /\ prereqPc = "storage"
    /\ prerequisites' = [prerequisites EXCEPT !.storageEnabled = ~IsFailure(answer)]
    /\ prereqReads' = Noted("storage", answer)
    /\ prereqPc' = "firestore"
    /\ UNCHANGED <<prereqProject, prereqOutcome>>

\* lines 281-293: the Firestore read, then the test that guards the
\* authentication reads
CheckFirestore(answer) ==
    /\ prereqPc = "firestore"
    /\ prerequisites' = [prerequisites EXCEPT !.firestoreEnabled = ~IsFailure(answer)]
    /\ prereqReads' = Noted("firestore", answer)
    /\ prereqPc' = IF prerequisites.firebaseEnabled THEN "auth" ELSE "decide"
    /\ UNCHANGED <<prereqProject, prereqOutcome>>

\* lines 294-304 and 326-328: a body of null makes the test of line 302
\* throw a TypeError, after line 299 has run; the catch of line 326 takes it.
CheckAuth(answer) ==
    /\ prereqPc = "auth"
    /\ prereqReads' = Noted("auth", answer)
    /\ IF IsFailure(answer)
       THEN /\ prereqPc' = "decide"
            /\ UNCHANGED prerequisites
       ELSE IF answer = Null
       THEN /\ prereqPc' = "decide"
            /\ prerequisites' = [prerequisites EXCEPT !.authConfigured = TRUE]
       ELSE /\ prereqPc' = "users"
            /\ prerequisites' = [prerequisites EXCEPT
                                   !.authConfigured = TRUE,
                                   !.emailPasswordEnabled = EmailEnabled(answer)]
    /\ UNCHANGED <<prereqProject, prereqOutcome>>

\* lines 306-325: a body of null makes line 320 throw, inside the inner try
CheckUsers(answer) ==
    /\ prereqPc = "users"
    /\ prereqReads' = Noted("users", answer)
    /\ prerequisites' =
         [prerequisites EXCEPT !.hasAuthUsers =
            IF IsFailure(answer) \/ answer = Null THEN FALSE ELSE HasUsers(answer)]
    /\ prereqPc' = "decide"
    /\ UNCHANGED <<prereqProject, prereqOutcome>>

\* lines 331-401
Decide ==
    /\ prereqPc = "decide"
    /\ IF AnyMissing(prerequisites)
       THEN /\ prereqPc' = "thrown"
            /\ prereqOutcome' =
                 [kind |-> "thrown",
                  missingSteps |-> MissingSteps(prerequisites, prereqProject),
                  message |-> EncodeSteps(MissingSteps(prerequisites, prereqProject))]
       ELSE /\ prereqPc' = "returned"
            /\ prereqOutcome' = [kind |-> "returned", prerequisitesChecked |-> TRUE]
    /\ UNCHANGED <<prereqProject, prerequisites, prereqReads>>

NextPrereq ==
    /\ \/ \E answer \in ReadFailures \cup ResourceBodies : CheckFirebase(answer)
       \/ \E answer \in ReadFailures \cup ResourceBodies : CheckStorage(answer)
       \/ \E answer \in ReadFailures \cup ResourceBodies : CheckFirestore(answer)
       \/ \E answer \in ReadFailures \cup AuthConfigBodies : CheckAuth(answer)
       \/ \E answer \in ReadFailures \cup UsersBodies : CheckUsers(answer)
       \/ Decide
    /\ UNCHANGED <<callVars, installVars, policyVars, payloadVars, createVars, rerunVars,
                   pollVars,
                   earlyVars,
                   tokenVars,
                   keysVars>>

SpecPrereq == InitPrereq /\ [][NextPrereq]_vars

(***************************************************************************)
(* The way of the remediation list from checkPrerequisites to the page:    *)
(* thrown as an Error (gcp-installer.ts:397-398), wrapped by install()     *)
(* (line 152), sanitized by handleInstall (pages/index.tsx:250-253) and    *)
(* decoded when the error is rendered (pages/index.tsx:773-830).           *)
(***************************************************************************)

\* The values `prerequisites` can have at line 332: the authentication
\* reads are made only if Firebase is enabled, the users read only if the
\* configuration read returned an object.
ReachablePrerequisites ==
    {p \in [DOMAIN NoPrerequisites -> BOOLEAN] :
        /\ p.authConfigured => p.firebaseEnabled
        /\ p.emailPasswordEnabled => p.authConfigured
        /\ p.hasAuthUsers => p.authConfigured}

\* The lists checkPrerequisites can throw
BuiltLists ==
    {MissingSteps(p, id) : p \in {q \in ReachablePrerequisites : AnyMissing(q)},
                           id \in Projects}

\* The list of the test 'should encode and decode prerequisites with URLs
\* correctly' (pages/index.tsx:961-972)
TestList ==
    << [name |-> "Enable Firebase",
        description |-> "Firebase needs to be enabled for this project",
        action |-> "Open Firebase Console: https://console.firebase.google.com/project/test-project/overview and click \"Continue to the console\""],
       [name |-> "Create Firestore Database",
        description |-> "Firestore database needs to be created",
        action |-> "Open Firestore Console: https://console.firebase.google.com/project/test-project/firestore and click \"Create database\""] >>

\* Lists whose texts hold a question mark: as the third byte of a group of
\* three it is written '/' in base64.
QuestionLists ==
    { << [name |-> "Is billing on?",
          description |-> "Billing must be enabled",
          action |-> "Open Billing: https://console.cloud.google.com/billing"] >>,
      << [name |-> "Enable Firebase",
          description |-> "Is Firebase enabled for this project?",
          action |-> "Open Firebase Console: https://console.firebase.google.com/project/test-project/overview?hl=en"] >> }

PayloadLists == BuiltLists \cup {TestList} \cup QuestionLists

\* `${error}` of line 152, for an Error with this message
ErrorToString(message) == "Error: " \o message

\* line 152
WrapStepFailure(stepName, message) ==
    "Failed at step \"" \o stepName \o "\": " \o ErrorToString(message)

\* error.split('PREREQUISITES_MISSING:')[1]: the text between the first and
\* the second occurrence of the marker, to the end if there is no second.
AfterMarker(error) ==
    LET first == IndexOfText(error, PrerequisitesMarker, 1)
        start == first + Len(PrerequisitesMarker)
        next  == IndexOfText(error, PrerequisitesMarker, start)
    IN  SubSeq(error, start, IF next = 0 THEN Len(error) ELSE next - 1)

\* JSON.parse: the list whose JSON text this is.  A text that is the
\* JSON.stringify of no list at hand is reported as unparseable; whatever
\* JSON.parse makes of it, it is not one of these lists written compactly.
JSONParse(text) ==
    LET M == {l \in PayloadLists : JSONStringify(l) = text}
    IN  IF M = {} THEN [kind |-> "unparseable"]
        ELSE [kind |-> "parsed", value |-> CHOOSE l \in M : TRUE]

\* pages/index.tsx:791-793
DecodeSteps(error) ==
    JSONParse(Utf8Text(Base64Decode(AfterMarker(error))))

InitPayload ==
    /\ KeysParked
    /\ TokenParked
    /\ EarlyParked
    /\ PollParked
    /\ CallParked /\ InstallParked /\ PolicyParked /\ PrereqParked
    /\ CreateParked /\ RerunParked
    /\ payloadPc = "checked"
    /\ payloadSteps \in PayloadLists
    /\ thrownMessage = ""
    /\ errorState = ""
    /\ decodedSteps = [kind |-> "pending"]

\* gcp-installer.ts:397-398
ThrowMissing ==
    /\ payloadPc = "checked"
    /\ thrownMessage' = EncodeSteps(payloadSteps)
    /\ payloadPc' = "thrown"
    /\ UNCHANGED <<payloadSteps, errorState, decodedSteps>>

\* gcp-installer.ts:151-153
InstallCatch ==
    /\ payloadPc = "thrown"
    /\ thrownMessage' = WrapStepFailure("Checking prerequisites", thrownMessage)
    /\ payloadPc' = "rejected"
    /\ UNCHANGED <<payloadSteps, errorState, decodedSteps>>

\* pages/index.tsx:250-253
HandleInstallError ==
    /\ payloadPc = "rejected"
    /\ errorState' = sanitizeErrorMessage(thrownMessage)
    /\ payloadPc' = "error"
    /\ UNCHANGED <<payloadSteps, thrownMessage, decodedSteps>>

\* pages/index.tsx:773-830
RenderError ==
    /\ payloadPc = "error"
    /\ IndexOfText(errorState, PrerequisitesMarker, 1) > 0
    /\ decodedSteps' = DecodeSteps(errorState)
    /\ payloadPc' = "rendered"
    /\ UNCHANGED <<payloadSteps, thrownMessage, errorState>>

NextPayload ==
    /\ \/ ThrowMissing
       \/ InstallCatch
       \/ HandleInstallError
       \/ RenderError
    /\ UNCHANGED <<callVars, installVars, policyVars, prereqVars, createVars, rerunVars,
                   pollVars,
                   earlyVars,
                   tokenVars,
                   keysVars>>

SpecPayload == InitPayload /\ [][NextPayload]_vars

(***************************************************************************)
(* Claims about checkPrerequisites (checked under SpecPrereq).  What each  *)
(* condition really is, is read off the answers the reads were given.      *)
(***************************************************************************)

\* the read `check` was made and answered with a body
ReadSucceeded(check) ==
    \E i \in 1..Len(prereqReads) :
        prereqReads[i].check = check /\ ~IsFailure(prereqReads[i].answer)

\* the read `check` was made and answered with an object that satisfies Test
BodyOf(check) ==
    LET i == CHOOSE k \in 1..Len(prereqReads) : prereqReads[k].check = check
    IN  prereqReads[i].answer

FirebaseHolds == ReadSucceeded("firebase")

StorageHolds == ReadSucceeded("storage")

FirestoreHolds == ReadSucceeded("firestore")

AuthInitialized == ReadSucceeded("auth")

EmailPasswordHolds ==
    /\ ReadSucceeded("auth")
    /\ BodyOf("auth") # Null
    /\ EmailEnabled(BodyOf("auth"))

UsersHold ==
    /\ ReadSucceeded("users")
    /\ BodyOf("users") # Null
    /\ HasUsers(BodyOf("users"))

AllSixHold ==
    /\ FirebaseHolds /\ StorageHolds /\ FirestoreHolds
    /\ AuthInitialized /\ EmailPasswordHolds /\ UsersHold

Reported == {prereqOutcome.missingSteps[i].name :
                i \in 1..Len(prereqOutcome.missingSteps)}

SomeReadFailed ==
    \E i \in 1..Len(prereqReads) : IsFailure(prereqReads[i].answer)

\* C17: in the list thrown by checkPrerequisites a condition is reported
\* only if its logical prerequisite passed: 'Initialize Firebase
\* Authentication' only if Firebase is enabled, 'Enable Email/Password
\* Sign-in' only if authentication is initialized, 'Create a Test User'
\* only if email/password is enabled; when authentication is not
\* initialized, email/password is not in the list although it is unmet too.
C17_ReportedOnlyAfterPrerequisite ==
    prereqPc = "thrown" =>
        /\ "Initialize Firebase Authentication" \in Reported => FirebaseHolds
        /\ "Enable Email/Password Sign-in" \in Reported => AuthInitialized
        /\ "Create a Test User" \in Reported => EmailPasswordHolds
        /\ ~AuthInitialized =>
              /\ ~EmailPasswordHolds
              /\ "Enable Email/Password Sign-in" \notin Reported
              /\ "Create a Test User" \notin Reported

\* Firebase is enabled, the configuration read failed: the list asks to
\* initialize authentication and says nothing of email/password.
C17_Witness ==
    /\ prereqPc = "thrown"
    /\ FirebaseHolds /\ ~AuthInitialized /\ ~EmailPasswordHolds
    /\ "Initialize Firebase Authentication" \in Reported
    /\ "Enable Email/Password Sign-in" \notin Reported

\* C18: checkPrerequisites ends either by returning (exactly when all six
\* conditions hold) or by throwing PREREQUISITES_MISSING with a list that is
\* not empty, whatever the reads answered; a read that fails (HTTP error,
\* network error, timeout) counts as its condition not being met and is
\* never thrown on as an error of its own.
C18_PassOrMissing ==
    /\ prereqOutcome.kind \in {"pending", "returned", "thrown"}
    /\ prereqPc \in {"returned", "thrown"} <=> prereqOutcome.kind # "pending"
    /\ prereqOutcome.kind = "returned" <=> (prereqPc = "returned" /\ AllSixHold)
    /\ prereqOutcome.kind = "thrown" =>
          /\ ~AllSixHold
          /\ Len(prereqOutcome.missingSteps) > 0
          /\ prereqOutcome.message =
                PrerequisitesMarker \o
                Base64Encode(Utf8Bytes(JSONStringify(prereqOutcome.missingSteps)))
          /\ ~FirebaseHolds <=> "Enable Firebase" \in Reported
          /\ ~StorageHolds <=> "Set up Firebase Storage" \in Reported
          /\ ~FirestoreHolds <=> "Create Firestore Database" \in Reported

\* A read failed on the network and the call ended with the list.
C18_Witness ==
    /\ prereqPc = "thrown"
    /\ \E i \in 1..Len(prereqReads) : prereqReads[i].answer = [error |-> "network"]
    /\ prereqOutcome.kind = "thrown"
    /\ Len(prereqOutcome.missingSteps) > 0

(***************************************************************************)
(* Claims about the remediation payload (checked under SpecPayload).       *)
(***************************************************************************)

EncodedSteps == Base64Encode(Utf8Bytes(JSONStringify(payloadSteps)))

SurvivedTransport == decodedSteps = [kind |-> "parsed", value |-> payloadSteps]

apiMaxRetries == 3

maxCreateRetries == 3

\* line 439: the message of the Error gcpApiCall throws for an HTTP status
GcpErrorMessage(status, body) == "GCP API Error: " \o status \o " - " \o body

AlreadyExistsMessage == GcpErrorMessage("409", "ALREADY_EXISTS")

\* The errors a call of a creation step is answered with
CreationErrors ==
    { [error |-> GcpErrorMessage("404", "NOT_FOUND")],
      [error |-> AlreadyExistsMessage],
      [error |-> GcpErrorMessage("403", "Location global is not found")],
      [error |-> GcpErrorMessage("403", "PERMISSION_DENIED")],
      [error |-> GcpErrorMessage("400", "database_id should be 4-63 characters")],
      [error |-> GcpErrorMessage("500", "INTERNAL")],
      [error |-> "Failed to fetch"] }

CreationBody == [ok |-> "body"]

CreationAnswers == CreationErrors \cup {CreationBody}

CreationSteps ==
    {"createServiceAccounts", "createFirestoreDatabase", "deployFunctions",
     "setupWorkloadIdentity", "createAPIGateway"}

\* The resources a step creates, in the order of its loop
CreatedBy(step) ==
    CASE step = "createServiceAccounts" ->
           <<"vertex-ai-sa", "device-auth-sa", "tvm-sa", "apigw-invoker-sa">>
      [] step = "createFirestoreDatabase" -> <<"(default)">>
      [] step = "deployFunctions" -> <<DeviceAuthFn, TvmFn>>
      [] step = "setupWorkloadIdentity" ->
           <<solutionPrefix \o "-device-pool", solutionPrefix \o "-firebase-provider">>
      [] step = "createAPIGateway" -> <<solutionPrefix \o "-device-api">>

\* setupWorkloadIdentity posts without looking first
ChecksFirst(step) == step # "setupWorkloadIdentity"

\* What a step does with the answer to its existence read:
\* "exists" (no creation), "create", "retry" or "throw".
AfterCheck(step, answer, retryCount) ==
    IF ~IsFailure(answer) THEN "exists"
    ELSE LET m == answer.error IN
      CASE step = "createAPIGateway" ->
             (IF Contains(m, "404") THEN "create"
              ELSE IF Contains(m, "403") /\ Contains(m, "Location global")
              THEN (IF retryCount + 1 < apiMaxRetries THEN "retry" ELSE "create")
              ELSE IF Contains(m, "403") THEN "create"
              ELSE IF ~Contains(m, "access denied") THEN "throw"
              ELSE "create")
        [] OTHER -> (IF Contains(m, "404") THEN "create" ELSE "throw")

\* What a step does with the answer to its creation call:
\* "created", "tolerated" (the error is swallowed), "retry" or "throw".
AfterCreate(step, answer, retryCount) ==
    IF ~IsFailure(answer) THEN "created"
    ELSE LET m == answer.error IN
      CASE step = "createServiceAccounts" -> "throw"
        [] step = "createFirestoreDatabase" ->
             (IF Contains(m, "database_id should be 4-63 characters") THEN "throw"
              ELSE IF ~Contains(m, "409") THEN "throw"
              ELSE "tolerated")
        [] step = "deployFunctions" -> "tolerated"
        [] step = "setupWorkloadIdentity" ->
             (IF ~Contains(m, "409") THEN "throw" ELSE "tolerated")
        [] step = "createAPIGateway" ->
             (IF Contains(m, "403") /\ Contains(m, "Location global")
              THEN (IF retryCount + 1 < maxCreateRetries THEN "retry" ELSE "throw")
              ELSE "throw")

\* The message of the Error the step throws for this answer
ThrownFor(step, call, answer) ==
    LET m == answer.error IN
    CASE step = "createFirestoreDatabase" /\ call = "check"
           /\ (Contains(m, "Firebase") \/ Contains(m, "not found")) ->
           "FIREBASE/FIRESTORE NOT SET UP"
      [] step = "createFirestoreDatabase" /\ call = "create"
           /\ Contains(m, "database_id should be 4-63 characters") ->
           "FIRESTORE SETUP REQUIRED"
      [] step = "createAPIGateway" /\ call = "create"
           /\ Contains(m, "403") /\ Contains(m, "Location global") ->
           "API Gateway service is not ready. Please wait a few minutes and try again."
      [] OTHER -> m

InitCreate ==
    /\ KeysParked
    /\ TokenParked
    /\ EarlyParked
    /\ PollParked
    /\ CallParked /\ InstallParked /\ PolicyParked /\ PrereqParked /\ PayloadParked
    /\ RerunParked
    /\ crStep \in CreationSteps
    /\ crPc = IF ChecksFirst(crStep) THEN "check" ELSE "create"
    /\ crIdx = 1
    /\ crRetries = 0
    /\ crCalls = <<>>
    /\ crError = ""

Called(call, answer) ==
    Append(crCalls, [resource |-> CreatedBy(crStep)[crIdx], call |-> call,
                     answer |-> answer])

\* the loop goes on to the next resource, or the step is through
NextResource ==
    /\ crRetries' = 0
    /\ crError' = ""
    /\ IF crIdx < Len(CreatedBy(crStep))
       THEN /\ crIdx' = crIdx + 1
            /\ crPc' = IF ChecksFirst(crStep) THEN "check" ELSE "create"
       ELSE /\ crIdx' = crIdx
            /\ crPc' = IF crStep = "createAPIGateway" /\ crPc = "create"
                       THEN "details" ELSE "proceeds"

Throws(message) ==
    /\ crPc' = "thrown"
    /\ crError' = message
    /\ UNCHANGED <<crIdx, crRetries>>

\* lines 602-614, 830-865, 946-957, 1183-1216
CheckExisting(answer) ==
    /\ crPc = "check"
    /\ crCalls' = Called("check", answer)
    /\ LET todo == AfterCheck(crStep, answer, crRetries) IN
       CASE todo = "exists" ->
              /\ crRetries' = 0 /\ crError' = ""
              /\ IF crIdx < Len(CreatedBy(crStep))
                 THEN crIdx' = crIdx + 1 /\ crPc' = "check"
                 ELSE crIdx' = crIdx /\ crPc' = "proceeds"
         [] todo = "create" ->
              /\ crPc' = "create" /\ crRetries' = 0
              /\ UNCHANGED <<crIdx, crError>>
         [] todo = "retry" ->
              /\ crRetries' = crRetries + 1
              /\ UNCHANGED <<crPc, crIdx, crError>>
         [] todo = "throw" -> Throws(ThrownFor(crStep, "check", answer))
    /\ UNCHANGED crStep

\* lines 616-633, 867-911, 985-1017, 1054-1066, 1071-1091, 1223-1253
CreateResource(answer) ==
    /\ crPc = "create"
    /\ crCalls' = Called("create", answer)
    /\ LET todo == AfterCreate(crStep, answer, crRetries) IN
       CASE todo \in {"created", "tolerated"} -> NextResource
         [] todo = "retry" ->
              /\ crRetries' = crRetries + 1
              /\ UNCHANGED <<crPc, crIdx, crError>>
         [] todo = "throw" -> Throws(ThrownFor(crStep, "create", answer))
    /\ UNCHANGED crStep

\* lines 1255-1278: the read of the API just created
ReadDetails(answer) ==
    /\ crPc = "details"
    /\ crCalls' = Called("details", answer)
    /\ IF \/ ~IsFailure(answer)
          \/ Contains(answer.error, "409")
          \/ (Contains(answer.error, "403") /\ Contains(answer.error, "Location global"))
       THEN crPc' = "proceeds" /\ UNCHANGED <<crIdx, crRetries, crError>>
       ELSE Throws(answer.error)
    /\ UNCHANGED crStep

NextCreate ==
    /\ \/ \E answer \in CreationAnswers : CheckExisting(answer)
       \/ \E answer \in CreationAnswers : CreateResource(answer)
       \/ \E answer \in CreationAnswers : ReadDetails(answer)
    /\ UNCHANGED <<callVars, installVars, policyVars, prereqVars, payloadVars,
                   rerunVars,
                   pollVars,
                   earlyVars,
                   tokenVars,
                   keysVars>>

SpecCreate == InitCreate /\ [][NextCreate]_vars

(***************************************************************************)
(* Claims about the creation calls (checked under SpecCreate).             *)
(***************************************************************************)

\* the last call made was a creation call answered 409
LastCreateConflicted ==
    /\ Len(crCalls) > 0
    /\ crCalls[Len(crCalls)].call = "create"
    /\ crCalls[Len(crCalls)].answer = [error |-> AlreadyExistsMessage]

\* C20: a 409 (already exists) answer to a creation call is as good as a
\* success for every creation step (service account, Firestore database,
\* workload identity pool and provider, function, gateway API): the step
\* goes on and does not throw because of it.
C20_ConflictIsSuccess ==
    LastCreateConflicted => crPc # "thrown"

(***************************************************************************)
(* The steps that create named resources, invoked again once the           *)
(* resources exist: createServiceAccounts (gcp-installer.ts:584-642),      *)
(* deployFunctions (916-1021), createAPIGateway (1151-1581) and            *)
(* generateAPIKeys (1659-1983), against one project at a provider that     *)
(* answers every call and finishes every operation.  One action per call   *)
(* of a step function.                                                     *)
(***************************************************************************)
MaxInvocations == 2

RerunProject == "proj-a"

keyDisplayName == solutionPrefix \o "-device-key"

gatewayId == solutionPrefix \o "-gateway"

\* The key string the provider makes up for the n-th key of the project
ProviderKeyString(n) ==
    "AIzaSy-key-" \o (CASE n = 1 -> "1" [] n = 2 -> "2" [] n = 3 -> "3"
                        [] n = 4 -> "4" [] OTHER -> "5")

ProviderKeyName(n) ==
    "projects/" \o RerunProject \o "/locations/global/keys/"
        \o (CASE n = 1 -> "k1" [] n = 2 -> "k2" [] n = 3 -> "k3"
              [] n = 4 -> "k4" [] OTHER -> "k5")

\* A key of the project that the installer did not make
ForeignKey ==
    [displayName |-> "maps-key", keyString |-> ProviderKeyString(1),
     name |-> ProviderKeyName(1)]

\* The project at the provider before the first step: nothing of the
\* installer's, or the first service account and another party's key.
InitialProviders ==
    { [accounts |-> a, functions |-> EmptyObj, policy |-> pol,
       gateway |-> Null, keys |-> k] :
        a \in {{}, {SaEmail("vertex-ai-sa", RerunProject)}},
        pol \in {<<OwnerBinding>>,
                 <<OwnerBinding,
                   [role |-> "roles/logging.logWriter", members |-> <<OtherMember>>]>>},
        k \in {<<>>, <<ForeignKey>>} }

\* createServiceAccounts, lines 594-636: `results`; an account that exists
\* and one that is created are entered alike
ServiceAccountResults ==
    [k \in {SaResultKey(id) : id \in ServiceAccountIds} |->
        SaEmail(CHOOSE id \in ServiceAccountIds : SaResultKey(id) = k, RerunProject)]

\* deployFunctions, lines 942-1018: functionUrls, for a provider state
\* `functions` in which each function exists (line 951) or is deployed
\* (line 1006)
FunctionsAfter(functions) ==
    [n \in {DeviceAuthFn, TvmFn} |->
        IF n \in DOMAIN functions THEN functions[n] ELSE ProviderFunctionUri(n)]

\* A lookup that finds no key.
FindKey_Never(keys) == 0 * Len(keys)

\* generateAPIKeys, lines 1793-1795: existingKeys.keys?.find(...), the
\* position of the first key of that display name, 0 if there is none
FindKey(keys) ==
    IF \E i \in 1..Len(keys) : keys[i].displayName = keyDisplayName
    THEN CHOOSE i \in 1..Len(keys) :
            /\ keys[i].displayName = keyDisplayName
            /\ \A j \in 1..(i - 1) : keys[j].displayName # keyDisplayName
    ELSE 0

\* generateAPIKeys, lines 1797-1803 and 1839-1895: the keys of the project
\* after the step
KeysAfter(keys, forceRegenerate) ==
    LET at == FindKey(keys)
        kept == IF at # 0 /\ forceRegenerate
                THEN SubSeq(keys, 1, at - 1) \o SubSeq(keys, at + 1, Len(keys))
                ELSE keys
    IN  IF at # 0 /\ ~forceRegenerate THEN keys
        ELSE Append(kept,
                [displayName |-> keyDisplayName,
                 keyString |-> ProviderKeyString(Len(keys) + 1),
                 name |-> ProviderKeyName(Len(keys) + 1)])

\* generateAPIKeys: the object returned (lines 1803, 1892-1895)
KeyResult(keys, forceRegenerate) ==
    LET after == KeysAfter(keys, forceRegenerate)
        at == IF FindKey(keys) # 0 /\ ~forceRegenerate THEN FindKey(keys)
              ELSE Len(after)
    IN  [apiKey |-> after[at].keyString, apiKeyId |-> after[at].name]

\* createAPIGateway, lines 1452-1513: the gateway after the step; one that
\* exists keeps its host name when it is given the new configuration
GatewayAfter(gateway, invocation) ==
    IF gateway # Null
    THEN [gateway EXCEPT !.apiConfig = invocation]
    ELSE [defaultHostname |-> ProviderGatewayHostname, apiConfig |-> invocation]

InitRerun ==
    /\ KeysParked
    /\ TokenParked
    /\ EarlyParked
    /\ PollParked
    /\ CallParked /\ InstallParked /\ PolicyParked /\ PrereqParked /\ PayloadParked
    /\ CreateParked
    /\ provider \in InitialProviders
    /\ returned = [s \in {"Creating service accounts", "Deploying Cloud Functions",
                          "Creating API Gateway", "Generating API keys"} |-> <<>>]
    /\ existedBefore = returned

Invocable(step) == Len(returned[step]) < MaxInvocations

Returns(step, result, existed) ==
    /\ returned' = [returned EXCEPT ![step] = Append(@, result)]
    /\ existedBefore' = [existedBefore EXCEPT ![step] = Append(@, existed)]

\* createServiceAccounts, lines 584-642
RunCreateServiceAccounts ==
    /\ Invocable("Creating service accounts")
    /\ provider' =
         [provider EXCEPT
            !.accounts = @ \cup {SaEmail(id, RerunProject) : id \in ServiceAccountIds},
            !.policy = MergedProjectPolicy(@, ServiceAccountResults)]
    /\ Returns("Creating service accounts",
               [results |-> ServiceAccountResults,
                policy |-> MergedProjectPolicy(provider.policy, ServiceAccountResults)],
               \A id \in ServiceAccountIds :
                    SaEmail(id, RerunProject) \in provider.accounts)

\* deployFunctions, lines 916-1021
RunDeployFunctions ==
    /\ Invocable("Deploying Cloud Functions")
    /\ provider' = [provider EXCEPT !.functions = FunctionsAfter(@)]
    /\ Returns("Deploying Cloud Functions",
               [results |-> FunctionsAfter(provider.functions)],
               {DeviceAuthFn, TvmFn} \subseteq DOMAIN provider.functions)

\* createAPIGateway, lines 1151-1581
RunCreateAPIGateway ==
    /\ Invocable("Creating API Gateway")
    /\ LET after == GatewayAfter(provider.gateway,
                                 Len(returned["Creating API Gateway"]) + 1)
       IN  /\ provider' = [provider EXCEPT !.gateway = after]
           /\ Returns("Creating API Gateway",
                      [results |->
                          [apiGatewayUrl |-> "https://" \o after.defaultHostname,
                           managedService |-> ProviderManagedService]],
                      provider.gateway # Null)

\* generateAPIKeys(false), lines 1659-1983
RunGenerateAPIKeys ==
    /\ Invocable("Generating API keys")
    /\ provider' = [provider EXCEPT !.keys = KeysAfter(@, FALSE)]
    /\ Returns("Generating API keys",
               [results |-> KeyResult(provider.keys, FALSE)],
               FindKey(provider.keys) # 0)

NextRerun ==
    /\ \/ RunCreateServiceAccounts
       \/ RunDeployFunctions
       \/ RunCreateAPIGateway
       \/ RunGenerateAPIKeys
    /\ UNCHANGED <<callVars, installVars, policyVars, prereqVars, payloadVars,
                   createVars,
                   pollVars,
                   earlyVars,
                   tokenVars,
                   keysVars>>

SpecRerun == InitRerun /\ [][NextRerun]_vars

(***************************************************************************)
(* Claims about repeated steps (checked under SpecRerun).                  *)
(***************************************************************************)

GatewayDegraded ==
    /\ "Creating API Gateway" \in Range(finished)
    /\ answers["Creating API Gateway"] = [kind |-> "configNotReady"]

\* C22: when the gateway configuration is not ACTIVE within its checks, the
\* step does not raise, install() completes, and the result it returns
\* carries the warning text and the shouldRetryLater marker.
C22_DegradedResultCarriesWarning ==
    (InRun /\ GatewayDegraded) =>
        /\ "apiGatewayWarning" \in DOMAIN results
        /\ (pc = "done" =>
              /\ outcome.kind = "result"
              /\ "apiGatewayWarning" \in DOMAIN outcome.value
              /\ "shouldRetryLater" \in DOMAIN outcome.value)

(***************************************************************************)
(* The polling loops: waitForOperation (gcp-installer.ts:1985-2021), the   *)
(* wait for the gateway configuration (1394-1450), the wait for the        *)
(* gateway (1515-1581) and the wait for the key-creation operation         *)
(* (1848-1972).  One action per status read.                               *)
(***************************************************************************)
Pollers == {"waitForOperation", "configActivation", "gatewayReadiness",
            "keyOperation"}

maxWaitMs == 300000

maxChecks == 60

gatewayMaxRetries == 10

maxPollAttempts == 30

\* waitForOperation, line 2017: the pause after a read that found the
\* operation running
OperationPauseMs == 10000

\* How long a status read of waitForOperation may take
ReadDurationsMs == {0, 5000}

\* What a status read finds: the thing is not there yet, it is there, the
\* operation ended with an error, or the read itself failed.
CheckAnswers == {"pending", "ready", "failed", "error"}

\* The loop conditions: line 1988; line 1399; line 1526; line 1858
HasBudget ==
    CASE poller = "waitForOperation" -> elapsed < maxWaitMs
      [] poller = "configActivation" -> checks < maxChecks
      [] poller = "gatewayReadiness" -> checks < gatewayMaxRetries
      [] poller = "keyOperation" -> checks < maxPollAttempts

configWarning ==
    "API Gateway is still activating. It may take up to 15 minutes to become fully operational."

\* generateAPIKeys, lines 1974-1982: what the catch returns for a thrown
\* message
KeyFailure(message) ==
    [apiKey |-> Null,
     apiKeyError |-> "API key creation failed: " \o message
        \o ". The API Gateway may still be initializing. Please wait a few minutes and try creating the key manually in the Google Cloud Console."]

\* createAPIGateway, line 1420 and line 1428: the percentage of check i
CheckPercent(i) == 80 + (5 * i) \div maxChecks

\* generateAPIKeys, lines 1669-1676 and 1760: the reports of the two-minute
\* wait and of the first lookup of the managed service
KeyStepReports ==
    <<95>> \o [i \in 1..12 |-> 95 + (2 * (i - 1)) \div 12] \o <<97>>

\* What the step has reported when the loop begins.  install() reports the
\* running total at the start of the step (line 141): 80 for 'Creating API
\* Gateway', 95 for 'Generating API keys'.  createAPIGateway then reports
\* 81 and 82 when the API has a managed service (lines 1304, 1325), 81
\* alone when deploying the service configuration raised.
ReportedBefore(p) ==
    CASE p = "configActivation" -> {<<80>>, <<80, 81>>, <<80, 81, 82>>}
      [] p = "keyOperation" -> {<<95>> \o KeyStepReports}
      [] OTHER -> {<<>>}

InitPoll ==
    /\ KeysParked
    /\ TokenParked
    /\ EarlyParked
    /\ CallParked /\ InstallParked /\ PolicyParked /\ PrereqParked /\ PayloadParked
    /\ CreateParked /\ RerunParked
    /\ poller \in Pollers
    /\ checks = 0
    /\ elapsed = 0
    /\ exhausted = FALSE
    /\ pollPc = "polling"
    /\ pollOutcome = Null
    /\ reported \in ReportedBefore(poller)

PollReturns(value) ==
    /\ pollPc' = "returned"
    /\ pollOutcome' = value

PollThrows(message) ==
    /\ pollPc' = "thrown"
    /\ pollOutcome' = [error |-> message]

PollGoesOn ==
    /\ pollPc' = "polling"
    /\ pollOutcome' = pollOutcome

\* waitForOperation, lines 1988-2018: one pass of the while loop
CheckOperation(answer, took) ==
    /\ pollPc = "polling" /\ poller = "waitForOperation" /\ HasBudget
    /\ checks' = checks + 1
    /\ (CASE answer = "ready" -> PollReturns([done |-> JSTRUE])
          [] answer = "failed" ->
                PollThrows("Operation failed: {\"code\":13}")
          [] answer = "error" ->
                PollThrows(GcpErrorMessage("503", "Service Unavailable"))
          [] OTHER -> PollGoesOn)
    /\ elapsed' = elapsed + took + (IF answer = "pending" THEN OperationPauseMs ELSE 0)
    /\ UNCHANGED <<poller, exhausted, reported>>

\* createAPIGateway, lines 1399-1433: one pass of the for loop
CheckConfig(answer) ==
    /\ pollPc = "polling" /\ poller = "configActivation" /\ HasBudget
    /\ checks' = checks + 1
    /\ IF answer = "ready"
       THEN PollReturns([configReady |-> JSTRUE])
       ELSE PollGoesOn
    \* lines 1408, 1418-1421, 1426-1429
    /\ reported' = Append(reported,
                          IF answer = "ready" THEN 82 ELSE CheckPercent(checks + 1))
    /\ UNCHANGED <<poller, elapsed, exhausted>>

\* createAPIGateway, lines 1526-1551: one pass of the while loop
CheckGateway(answer) ==
    /\ pollPc = "polling" /\ poller = "gatewayReadiness" /\ HasBudget
    /\ checks' = checks + 1
    /\ IF answer = "ready"
       THEN /\ pollPc' = "reread"
            /\ pollOutcome' = [state |-> "ACTIVE",
                               defaultHostname |-> ProviderGatewayHostname]
       ELSE PollGoesOn
    /\ UNCHANGED <<poller, elapsed, exhausted, reported>>

\* generateAPIKeys, lines 1858-1941: one pass of the while loop
CheckKeyOperation(answer) ==
    /\ pollPc = "polling" /\ poller = "keyOperation" /\ HasBudget
    /\ checks' = checks + 1
    /\ (CASE answer = "ready" ->
                PollReturns([apiKey |-> ProviderApiKey,
                             apiKeyId |-> ProviderApiKeyName])
          [] answer = "failed" ->
                PollReturns(KeyFailure("API key creation failed: {\"code\":13}"))
          [] OTHER -> PollGoesOn)
    \* lines 1867 and 1891
    /\ reported' = reported \o (IF answer = "ready" THEN <<98, 100>> ELSE <<98>>)
    /\ UNCHANGED <<poller, elapsed, exhausted>>

\* The loop ends with its budget spent: line 2020; lines 1435-1450; lines
\* 1553-1554; lines 1944-1972, where the operation's name is all the create
\* call answered, with or without a managed service found.
BudgetSpent(managedServiceFound) ==
    /\ pollPc = "polling" /\ ~HasBudget
    /\ exhausted' = TRUE
    /\ (CASE poller = "waitForOperation" ->
                PollThrows("Operation timed out after 300 seconds")
          [] poller = "configActivation" ->
                PollReturns([apiGatewayWarning |-> configWarning,
                             shouldRetryLater |-> JSTRUE])
          [] poller = "gatewayReadiness" ->
                /\ pollPc' = "final"
                /\ pollOutcome' = pollOutcome
          [] poller = "keyOperation" ->
                IF managedServiceFound
                THEN PollReturns(
                        [apiKey |-> Null,
                         apiKeyError |-> "API key creation timed out. This usually means the API Gateway is still initializing."])
                ELSE PollReturns(KeyFailure(
                        "API key creation is taking longer than expected (>5 minutes). The key may still be creating in the background. Please wait a few more minutes and try again, or create the key manually in the Google Cloud Console.")))
    /\ UNCHANGED <<poller, checks, elapsed, reported>>

\* createAPIGateway, lines 1554-1568: the last read of the gateway
FinalAttempt(answer) ==
    /\ pollPc = "final"
    /\ answer \in {"pending", "ready", "error"}
    /\ pollOutcome' =
         CASE answer = "ready" -> [state |-> "ACTIVE",
                                   defaultHostname |-> ProviderGatewayHostname]
           [] answer = "pending" -> [state |-> "CREATING",
                                     defaultHostname |-> UNDEFINED]
           [] OTHER -> [defaultHostname |->
                           gatewayId \o "-" \o ProviderProjectNumber(RerunProject)
                               \o "." \o region \o ".gateway.dev"]
    /\ pollPc' = "reread"
    /\ UNCHANGED <<poller, checks, elapsed, exhausted, reported>>

\* createAPIGateway, lines 1570-1580: the gateway is read once more when it
\* was created by this call, and the URL is returned
GetGatewayUrl(gatewayExists, answer) ==
    /\ pollPc = "reread"
    /\ answer \in {"pending", "ready", "error"}
    /\ IF gatewayExists
       THEN PollReturns([apiGatewayUrl |-> "https://" \o pollOutcome.defaultHostname])
       ELSE (CASE answer = "ready" ->
                    PollReturns([apiGatewayUrl |-> "https://" \o ProviderGatewayHostname])
               [] answer = "pending" ->
                    PollReturns([apiGatewayUrl |-> "https://" \o UNDEFINED])
               [] OTHER -> PollThrows(GcpErrorMessage("503", "Service Unavailable")))
    /\ UNCHANGED <<poller, checks, elapsed, exhausted, reported>>

NextPoll ==
    /\ \/ \E a \in CheckAnswers, t \in ReadDurationsMs : CheckOperation(a, t)
       \/ \E a \in CheckAnswers : CheckConfig(a)
       \/ \E a \in CheckAnswers : CheckGateway(a)
       \/ \E a \in CheckAnswers : CheckKeyOperation(a)
       \/ \E m \in BOOLEAN : BudgetSpent(m)
       \/ \E a \in CheckAnswers : FinalAttempt(a)
       \/ \E e \in BOOLEAN, a \in CheckAnswers : GetGatewayUrl(e, a)
    /\ UNCHANGED <<callVars, installVars, policyVars, prereqVars, payloadVars,
                   createVars, rerunVars,
                   earlyVars,
                   tokenVars,
                   keysVars>>

SpecPoll == InitPoll /\ [][NextPoll]_vars

(***************************************************************************)
(* Claims about the polling loops (checked under SpecPoll).                *)
(***************************************************************************)

\* The most status reads a loop can make.
MostChecks ==
    CASE poller = "waitForOperation" -> maxWaitMs \div OperationPauseMs
      [] poller = "configActivation" -> maxChecks
      [] poller = "gatewayReadiness" -> gatewayMaxRetries
      [] poller = "keyOperation" -> maxPollAttempts

\* C23: every polling loop makes a bounded number of status reads, and one
\* whose budget is spent gives its caller a timeout outcome: it does not
\* raise.
C23_BoundedAndNoRaise ==
    /\ checks <= MostChecks
    /\ exhausted => pollPc # "thrown"

(***************************************************************************)
(* Claim about rejected credentials (checked under SpecPrereq).            *)
(***************************************************************************)

\* A read of checkPrerequisites was answered 401.
CredentialRejected ==
    \E i \in 1..Len(prereqReads) : prereqReads[i].answer = [error |-> "http401"]

\* C24: a 401 answer is surfaced as an error of its own, the credential
\* being expired or invalid, and ends the attempt; it is never taken for
\* another condition such as a prerequisite not being met.
C24_RejectedCredentialSurfaces ==
    (CredentialRejected /\ prereqPc \in {"thrown", "returned"}) =>
        /\ prereqOutcome.kind = "thrown"
        /\ "missingSteps" \notin DOMAIN prereqOutcome

(***************************************************************************)
(* Claim about what is stored (checked under SpecInstall).                 *)
(***************************************************************************)

\* The key strings the provider generated for the project.
KeyMaterial == {ProviderApiKey, ProviderWebApiKey}

\* The values held by the fields of the stored record's resources
StoredResourceValues ==
    LET r == localStorage.resources
    IN  UNION { {r[kind][k] : k \in (DOMAIN r[kind]) \ {"urls"}} : kind \in DOMAIN r }

\* The values held by the fields of the stored final result and of its
\* configuration summary
StoredResultValues ==
    LET res == localStorage.installResult
    IN  IF res = Null THEN {}
        ELSE {res[k] : k \in (DOMAIN res) \ {"configurationSummary"}}
             \cup {res.configurationSummary[k] : k \in DOMAIN res.configurationSummary}

\* C25: no stored record holds generated key material in clear: the API key
\* string and the Firebase web API key are masked or absent in every field,
\* those of the resources and of the stored final result included.
C25_NoKeyMaterialStored ==
    (localStorage # Null /\ localStorage.version = CURRENT_VERSION) =>
        (StoredResourceValues \cup StoredResultValues) \cap KeyMaterial = {}

(***************************************************************************)
(* validateProject (gcp-installer.ts:461-517) followed by enableAPIs       *)
(* (519-582), as install() runs them on a project it has no record of.     *)
(* One action per call answered.                                           *)
(***************************************************************************)
NumApis == 3

\* enableAPIs, lines 520-549: `apis`, its first entries
ApiNames ==
    <<"identitytoolkit.googleapis.com", "storage.googleapis.com",
      "firebasestorage.googleapis.com", "aiplatform.googleapis.com",
      "run.googleapis.com">>

Apis == {ApiNames[i] : i \in 1..NumApis}

\* Project ids are lower-case letters, digits and hyphens.
ValidatedProjects == {"proj-a", "proj-403"}

\* Answers to GET .../v1/projects/{projectId} (line 465)
ProjectAnswers ==
    { [lifecycleState |-> "ACTIVE", projectNumber |-> "1001"],
      [lifecycleState |-> "DELETE_REQUESTED", projectNumber |-> "1001"],
      [error |-> GcpErrorMessage("403", "PERMISSION_DENIED")],
      [error |-> GcpErrorMessage("404", "NOT_FOUND")] }

\* Answers to GET .../billingInfo (lines 478-480): a body, or the Error of
\* gcpApiCall
BillingAnswers ==
    { [billingEnabled |-> JSTRUE], [billingEnabled |-> "false"], EmptyObj,
      [error |-> GcpErrorMessage("401", "UNAUTHENTICATED")],
      [error |-> GcpErrorMessage("403", "PERMISSION_DENIED")],
      [error |-> GcpErrorMessage("404", "NOT_FOUND")],
      [error |-> GcpErrorMessage("503", "Service Unavailable")],
      [error |-> "Failed to fetch"],
      [error |-> "Request timed out after 600000ms"] }

\* validateProject, lines 483-501: the message thrown; its other lines hold
\* the project id once more and neither '403' nor 'Permission'
BillingNotEnabled(projectId) ==
    "BILLING NOT ENABLED The project \"" \o projectId
        \o "\" does not have billing enabled."

\* validateProject, lines 477-504: what the try block throws, "" if nothing
ThrownInTry(answer, projectId) ==
    IF IsFailure(answer) THEN answer.error
    ELSE IF ~Truthy(Get(answer, "billingEnabled")) THEN BillingNotEnabled(projectId)
    ELSE ""

\* validateProject, lines 505-516: the catch rethrows the message
Rethrown(message) ==
    /\ message # ""
    /\ ~(Contains(message, "403") \/ Contains(message, "Permission"))
    /\ Contains(message, "BILLING NOT ENABLED")

\* A chain that lets the rejection through.
Caught_Rethrows(promise) == promise

\* enableAPIs, line 555: .catch(err => console.warn(...)) on a call's promise
Caught(promise) == IF promise = "rejected" THEN "fulfilled" ELSE promise

\* Promise.all over the promises of `states`
PromiseAll(states) ==
    IF \E a \in DOMAIN states : states[a] = "rejected" THEN "rejected"
    ELSE IF \A a \in DOMAIN states : states[a] = "fulfilled" THEN "fulfilled"
    ELSE "pending"

\* enableAPIs, line 551: enablePromises
ChainedPromises == [a \in DOMAIN enablePromises |-> Caught(enablePromises[a])]

InitEnable ==
    /\ KeysParked
    /\ TokenParked
    /\ CallParked /\ InstallParked /\ PolicyParked /\ PrereqParked /\ PayloadParked
    /\ CreateParked /\ RerunParked /\ PollParked
    /\ earlyPc = "project"
    /\ earlyProjectId \in ValidatedProjects
    /\ projectRead = Null
    /\ billingRead = Null
    /\ enablePromises = EmptyObj
    /\ settledOrder = <<>>
    /\ earlyOutcome = Null

\* install(), lines 151-153
InstallThrows(step, message) ==
    /\ earlyPc' = "failed"
    /\ earlyOutcome' =
         [error |-> "Failed at step \"" \o step \o "\": Error: " \o message]

\* validateProject, lines 465-472
ReadProject(answer) ==
    /\ earlyPc = "project"
    /\ projectRead' = answer
    /\ IF IsFailure(answer)
       THEN InstallThrows("Validating project", answer.error)
       ELSE IF answer.lifecycleState # "ACTIVE"
       THEN InstallThrows("Validating project", "Project is not active")
       ELSE earlyPc' = "billing" /\ earlyOutcome' = earlyOutcome
    /\ UNCHANGED <<earlyProjectId, billingRead, enablePromises, settledOrder>>

\* validateProject, lines 475-516
ReadBilling(answer) ==
    /\ earlyPc = "billing"
    /\ billingRead' = answer
    /\ LET message == ThrownInTry(answer, earlyProjectId)
       IN  IF Rethrown(message)
           THEN InstallThrows("Validating project", message)
           ELSE /\ earlyPc' = "validated"
                /\ earlyOutcome' = [projectValidated |-> JSTRUE,
                                    projectNumber |-> projectRead.projectNumber]
    /\ UNCHANGED <<earlyProjectId, projectRead, enablePromises, settledOrder>>

\* install(), lines 112-143, and enableAPIs, lines 551-556: the next step is
\* called and issues one call per API
IssueEnableCalls ==
    /\ earlyPc = "validated"
    /\ enablePromises' = [a \in Apis |-> "pending"]
    /\ earlyPc' = "enabling"
    /\ UNCHANGED <<earlyProjectId, projectRead, billingRead, settledOrder,
                   earlyOutcome>>

\* One of the calls issued is answered, or gives up
EnableCallSettles(api, state) ==
    /\ earlyPc \in {"enabling", "failed"}
    /\ api \in DOMAIN enablePromises
    /\ enablePromises[api] = "pending"
    /\ state \in {"fulfilled", "rejected"}
    /\ enablePromises' = [enablePromises EXCEPT ![api] = state]
    /\ settledOrder' = Append(settledOrder, api)
    /\ UNCHANGED <<earlyPc, earlyProjectId, projectRead, billingRead, earlyOutcome>>

\* enableAPIs, line 558: await Promise.all(enablePromises)
AwaitAll ==
    /\ earlyPc = "enabling"
    /\ PromiseAll(ChainedPromises) # "pending"
    /\ IF PromiseAll(ChainedPromises) = "rejected"
       THEN InstallThrows("Enabling APIs", GcpErrorMessage("403", "PERMISSION_DENIED"))
       ELSE earlyPc' = "agent" /\ earlyOutcome' = earlyOutcome
    /\ UNCHANGED <<earlyProjectId, projectRead, billingRead, enablePromises,
                   settledOrder>>

\* enableAPIs, lines 560-581: the call that makes the provider create the
\* gateway's service agent; its error is ignored
TriggerServiceAgent(answered) ==
    /\ earlyPc = "agent"
    /\ earlyPc' = "enabled"
    /\ earlyOutcome' = [apisEnabled |-> JSTRUE, agentCallAnswered |-> answered]
    /\ UNCHANGED <<earlyProjectId, projectRead, billingRead, enablePromises,
                   settledOrder>>

NextEnable ==
    /\ \/ \E answer \in ProjectAnswers : ReadProject(answer)
       \/ \E answer \in BillingAnswers : ReadBilling(answer)
       \/ IssueEnableCalls
       \/ \E api \in Apis, state \in {"fulfilled", "rejected"} :
              EnableCallSettles(api, state)
       \/ AwaitAll
       \/ \E answered \in BOOLEAN : TriggerServiceAgent(answered)
    /\ UNCHANGED <<callVars, installVars, policyVars, prereqVars, payloadVars,
                   createVars, rerunVars, pollVars,
                   tokenVars,
                   keysVars>>

SpecEnable == InitEnable /\ [][NextEnable]_vars

(***************************************************************************)
(* Claims about validateProject and enableAPIs (checked under SpecEnable). *)
(***************************************************************************)

\* C26: validateProject succeeds only if the billing read reported
\* billingEnabled = true; when billing is disabled or cannot be verified
\* the step fails and no later step runs.
C26_BillingRequired ==
    /\ earlyPc \notin {"project", "billing", "failed"} =>
            billingRead = [billingEnabled |-> JSTRUE]
    /\ (earlyPc = "failed" /\ projectRead # Null /\ billingRead # Null) =>
            enablePromises = EmptyObj

AllSettled == \A a \in DOMAIN enablePromises : enablePromises[a] # "pending"

\* C27: the enable calls are issued together and collected one by one: the
\* failure of any of them, in whatever order they complete, does not fail
\* the step, and the step returns apisEnabled only after every call has
\* settled.
C27_EnableSettlesAll ==
    /\ earlyPc = "enabling" => DOMAIN enablePromises = Apis
    /\ enablePromises # EmptyObj => earlyPc # "failed"
    /\ earlyPc \in {"agent", "enabled"} => AllSettled
    /\ earlyPc = "enabled" => earlyOutcome.apisEnabled = JSTRUE

\* The step returned although the call issued first settled last, after
\* another call was rejected.
C27_Witness ==
    /\ earlyPc = "enabled"
    /\ Len(settledOrder) = NumApis
    /\ settledOrder[NumApis] = ApiNames[1]
    /\ \E a \in Apis : enablePromises[a] = "rejected"
    /\ \E a \in Apis : enablePromises[a] = "fulfilled"

(***************************************************************************)
(* Claims about whole runs of install() (checked under SpecInstall).       *)
(***************************************************************************)

\* install() found no record to resume and every call of every step went
\* through.
FreshAllSucceeded ==
    /\ pc = "done"
    /\ savedState = Null
    /\ \A s \in StepSet : answers[s] = CanonicalAnswer(s)

\* The sum of the weights of lines 97-105
TotalWeight ==
    LET S[i \in 0..NumSteps] == IF i = 0 THEN 0 ELSE S[i - 1] + StepWeights[i]
    IN  S[NumSteps]

\* C28: an install with no record to resume, in which every provider call
\* succeeds, executes all nine steps; their weights sum to 100, the last
\* progress value reported is 100, and the final result holds a non-empty
\* gateway URL and a non-empty API key.
C28_FreshInstallCompletes ==
    FreshAllSucceeded =>
        /\ invoked = StepNames
        /\ finished = StepNames
        /\ skippedSteps = <<>>
        /\ TotalWeight = 100
        /\ progress[Len(progress)] = 100
        /\ outcome.kind = "result"
        /\ outcome.value.apiGatewayUrl = "https://" \o ProviderGatewayHostname
        /\ outcome.value.apiKey = ProviderApiKey

\* The first install of a browser that held nothing has completed.
C28_Witness ==
    /\ FreshAllSucceeded
    /\ runs = 1
    /\ prev.found = Null
    /\ Len(progress) = 2 * NumSteps

\* install() resumed a record of the current build whose completed steps
\* are 'Enabling APIs' alone.
SingleStepResume ==
    /\ InRun
    /\ savedState # Null
    /\ savedState.version = CURRENT_VERSION
    /\ savedState.completedSteps = <<"Enabling APIs">>

\* C29: on a record whose completed steps are exactly 'Enabling APIs', of
\* the current version, the run skips 'Enabling APIs' without invoking it,
\* and the progress it reports starts at that step's weight, not at 0.
C29_ProgressStartsAtWeight ==
    SingleStepResume =>
        /\ "Enabling APIs" \notin Range(invoked)
        /\ stepIdx > IndexOf("Enabling APIs") =>
                "Enabling APIs" \in Range(skippedSteps)
        /\ progress # <<>> => progress[1] = StepWeights[IndexOf("Enabling APIs")]

\* The steps the run did not invoke, in step order
NotInvoked == SelectSeq(StepNames, LAMBDA s : s \notin Range(invoked))

\* C30: the result reports resume information exactly when a record was
\* resumed and at least one step was skipped: resumedInstallation is true
\* and skippedSteps lists the skipped steps in step order; the result of a
\* run that skipped nothing carries no resume information.
C30_ResumeInfoExactly ==
    (pc = "done") =>
        /\ skippedSteps = NotInvoked
        /\ skippedSteps # <<>> => savedState # Null
        /\ IF skippedSteps # <<>>
           THEN /\ outcome.value.resumedInstallation = JSTRUE
                /\ outcome.value.skippedSteps = NotInvoked
           ELSE /\ "resumedInstallation" \notin DOMAIN outcome.value
                /\ "skippedSteps" \notin DOMAIN outcome.value

\* One run resumed a record and skipped some steps but not all; another
\* resumed a record and skipped none.
C30_Witness ==
    /\ pc = "done"
    /\ savedState # Null
    /\ Len(skippedSteps) \in 1..(NumSteps - 1)
    /\ outcome.value.skippedSteps = skippedSteps

(***************************************************************************)
(* SecureTokenManager and SecureApiClient.makeRequest                      *)
(* (src/lib/secure-storage.ts:153-231).                                    *)
(***************************************************************************)
MaxStores == 2

MaxRequests == 2

\* The strings passed to storeToken
Tokens == {"ya29.first", "ya29.second", ""}

\* Math.random().toString(36).substr(2, 9), line 191
RandomParts == {"k3x9", "p7m2"}

\* generateTokenId, lines 190-192
generateTokenId(ms, random) ==
    "token_" \o (IF ms = 0 THEN "1700000000000" ELSE "1700000000001") \o "_" \o random

TokenIds == {generateTokenId(ms, r) : ms \in 0..1, r \in RandomParts}

\* An id that storeToken never returned
ForeignId == "invalid-token-id"

\* getToken, lines 168-170: this.tokenStore.get(tokenId) || null
getToken(store, tokenId) ==
    LET got == IF tokenId \in DOMAIN store THEN store[tokenId] ELSE UNDEFINED
    IN  IF Truthy(got) THEN got ELSE JSNULL

\* isTokenValid, lines 197-199
isTokenValid(store, tokenId) == tokenId \in DOMAIN store

InitToken ==
    /\ KeysParked
    /\ CallParked /\ InstallParked /\ PolicyParked /\ PrereqParked /\ PayloadParked
    /\ CreateParked /\ RerunParked /\ PollParked /\ EarlyParked
    /\ tokenStore = EmptyObj
    /\ storeCalls = <<>>
    /\ clockMs = 0
    /\ requests = <<>>
    /\ requestOutcome = Null

\* Time passes
ClockTicks ==
    /\ clockMs = 0
    /\ clockMs' = 1
    /\ UNCHANGED <<tokenStore, storeCalls, requests, requestOutcome>>

\* storeToken, lines 160-164
storeToken(token, random) ==
    /\ Len(storeCalls) < MaxStores
    /\ LET tokenId == generateTokenId(clockMs, random)
       IN  /\ tokenStore' = Assign(tokenStore, [k \in {tokenId} |-> token])
           /\ storeCalls' = Append(storeCalls,
                                   [token |-> token, id |-> tokenId, live |-> TRUE])
    /\ UNCHANGED <<clockMs, requests, requestOutcome>>

\* clearToken, lines 175-177
clearToken(tokenId) ==
    /\ tokenId \in DOMAIN tokenStore
    /\ tokenStore' = [k \in (DOMAIN tokenStore) \ {tokenId} |-> tokenStore[k]]
    /\ storeCalls' = [i \in 1..Len(storeCalls) |->
                        IF storeCalls[i].id = tokenId
                        THEN [storeCalls[i] EXCEPT !.live = FALSE]
                        ELSE storeCalls[i]]
    /\ UNCHANGED <<clockMs, requests, requestOutcome>>

\* clearAllTokens, lines 182-184
clearAllTokens ==
    /\ tokenStore # EmptyObj
    /\ tokenStore' = EmptyObj
    /\ storeCalls' = [i \in 1..Len(storeCalls) |->
                        [storeCalls[i] EXCEPT !.live = FALSE]]
    /\ UNCHANGED <<clockMs, requests, requestOutcome>>

\* new SecureApiClient(tokenId).makeRequest(url), lines 215-231
makeRequest(tokenId) ==
    /\ Len(requests) < MaxRequests
    /\ LET token == getToken(tokenStore, tokenId)
       IN  IF ~Truthy(token)
           THEN /\ requestOutcome' =
                     [tokenId |-> tokenId, before |-> Len(requests),
                      stored |-> isTokenValid(tokenStore, tokenId),
                      error |-> "Authentication token not found or expired"]
                /\ requests' = requests
           ELSE /\ requests' = Append(requests,
                                      [Authorization |-> "Bearer " \o token])
                /\ requestOutcome' =
                     [tokenId |-> tokenId, before |-> Len(requests),
                      stored |-> isTokenValid(tokenStore, tokenId),
                      response |-> "ok"]
    /\ UNCHANGED <<tokenStore, storeCalls, clockMs>>

NextToken ==
    /\ \/ ClockTicks
       \/ \E token \in Tokens, random \in RandomParts : storeToken(token, random)
       \/ \E tokenId \in TokenIds : clearToken(tokenId)
       \/ clearAllTokens
       \/ \E tokenId \in TokenIds \cup {ForeignId} : makeRequest(tokenId)
    /\ UNCHANGED <<callVars, installVars, policyVars, prereqVars, payloadVars,
                   createVars, rerunVars, pollVars, earlyVars,
                   keysVars>>

SpecToken == InitToken /\ [][NextToken]_vars

(***************************************************************************)
(* Claim about the token map (checked under SpecToken).                    *)
(***************************************************************************)

\* The ids that storeToken returned and that were not cleared since
LiveIds == {storeCalls[i].id : i \in {j \in 1..Len(storeCalls) : storeCalls[j].live}}

\* C31: getToken(id) returns the token stored by the storeToken call that
\* returned id, from that call until clearToken(id) or clearAllTokens; it
\* returns null afterwards and for ids never issued; makeRequest with an id
\* that has no token raises 'Authentication token not found or expired' and
\* issues no request.
C31_TokenLifecycle ==
    /\ \A i \in 1..Len(storeCalls) :
          storeCalls[i].live =>
              getToken(tokenStore, storeCalls[i].id) = storeCalls[i].token
    /\ \A tokenId \in (TokenIds \cup {ForeignId}) \ LiveIds :
          getToken(tokenStore, tokenId) = JSNULL
    /\ requestOutcome # Null =>
          IF requestOutcome.stored
          THEN "response" \in DOMAIN requestOutcome
          ELSE /\ requestOutcome.error = "Authentication token not found or expired"
               /\ Len(requests) = requestOutcome.before

(***************************************************************************)
(* Claims about concurrent grants and about what a grant writes (checked   *)
(* under SpecGrant).                                                       *)
(***************************************************************************)

\* Installer i sends its document in this step, and the project's policy is
\* still the one it fetched: no write came between its read and its write.
WritesOverOwnRead(i) ==
    /\ grantPc[i] \in {"rolesFetched", "gatewayFetched"}
    /\ grantPc'[i] \in {"rolesWritten", "done"}
    /\ grantFetched[i] = projectPolicy

\* Every member the document held under a role that satisfies Keep is held
\* under that role after the step.
KeepsMembers(wellFormedOnly) ==
    \A k \in 1..Len(projectPolicy) :
        \A m \in Range(projectPolicy[k].members) :
            (wellFormedOnly => ~Contains(m, "undefined")) =>
                Bound(projectPolicy', projectPolicy[k].role, m)

\* C32: the write-back replaces the whole document and follows a separate
\* read, so the read-merge-write is not atomic: when two installers
\* interleave their cycles, a binding added by one can be lost by the
\* other's write; a write that follows its own read with no write between
\* them loses no binding of a well-formed member (a malformed member, such
\* as the one a gateway grant adds for an unresolved project number, is
\* stripped by a later role grant).
C32_LossOnlyByInterleaving ==
    [][\A i \in Installers : WritesOverOwnRead(i) => KeepsMembers(TRUE)]_vars

\* Two installers interleaved: a member that one of them bound, and that
\* its document held, is not bound in the project's policy, which is the
\* document the other sent.
C32_Witness ==
    \E i \in Writers, j \in Writers :
        /\ i # j
        /\ projectPolicy = grantWritten[j].doc
        /\ \E g \in RequestedGrants(i) :
              /\ ~Contains(g.member, "undefined")
              /\ Bound(grantWritten[i].doc, g.role, g.member)
              /\ ~Bound(grantFetched[i], g.role, g.member)
              /\ ~Bound(projectPolicy, g.role, g.member)

\* C32 as stated: when the cycles do not overlap no binding at all is lost.
C32_NothingLostWithoutOverlap ==
    [][\A i \in Installers : WritesOverOwnRead(i) => KeepsMembers(FALSE)]_vars

\* The documents the installers have sent for the project
WrittenDocs == {grantWritten[i].doc : i \in Writers}

\* C33: no policy document written by the installer holds a malformed
\* member, one built from an unresolved identity: those of the fetched
\* policy are stripped, bindings left empty are dropped and none is added,
\* in fresh runs and in resumed runs that skipped 'Validating project'.
C33_NoMalformedMemberWritten ==
    \A doc \in WrittenDocs :
        \A k \in 1..Len(doc) :
            /\ Len(doc[k].members) > 0
            /\ \A m \in Range(doc[k].members) : ~Contains(m, "undefined")

\* Every member that document before holds under a role is held under that
\* role in document after; members containing 'undefined' are left aside.
Preserves(before, after) ==
    \A k \in 1..Len(before) :
        \A m \in Range(before[k].members) :
            ~Contains(m, "undefined") => Bound(after, before[k].role, m)

\* C34: every policy write of the installer, on the project, on a service
\* account or on a function, is preceded by a read of that scope's policy
\* and preserves the bindings present there; no write replaces a scope's
\* policy with the installer's own bindings alone.
C34_EveryWriteReadsAndPreserves ==
    /\ \A i \in Writers : Preserves(grantFetched[i], grantWritten[i].doc)
    /\ functionGrant.kind # "none" =>
          /\ functionGrant.read
          /\ Preserves(functionGrant.before, functionGrant.doc)

(***************************************************************************)
(* The URL createAPIGateway returns (checked under SpecPoll)               *)
(***************************************************************************)

\* The hostnames a returned URL may be built from: the one the provider
\* reports for the gateway, and the fallback of line 1566.
KnownHostnames ==
    { ProviderGatewayHostname,
      gatewayId \o "-" \o ProviderProjectNumber(RerunProject) \o "." \o region
          \o ".gateway.dev",
      gatewayId \o "-" \o RerunProject \o "." \o region \o ".gateway.dev" }

\* C38: whenever createAPIGateway returns an apiGatewayUrl as a normal
\* success, the URL is built from a hostname the provider reported or from
\* the fallback hostname, never from a missing hostname; and spending the
\* ten checks of the gateway readiness poll does not by itself make the
\* step fail.
C38_UrlFromKnownHostname ==
    /\ [](poller = "gatewayReadiness" /\ pollPc = "returned" =>
            \E h \in KnownHostnames : pollOutcome.apiGatewayUrl = "https://" \o h)
    /\ [][poller = "gatewayReadiness" /\ ~exhausted /\ exhausted' =>
            pollPc' # "thrown"]_vars

(***************************************************************************)
(* The project number in the steps that use it (checked under SpecInstall) *)
(***************************************************************************)

\* deployFunctions, line 932 (WIF_PROJECT_NUMBER of the TVM function), and
\* grantAPIGatewayPermissions, line 1100, read this.config.projectNumber
ProjectNumberConsumers == {"Deploying Cloud Functions", "Creating API Gateway"}

\* C36: whenever a step that consumes the project number runs, the project
\* number produced by 'Validating project' is available to it, also in a
\* resumed run in which 'Validating project' is skipped.
C36_ProjectNumberAvailable ==
    (pc = "running" /\ StepNames[stepIdx] \in ProjectNumberConsumers) =>
        config.projectNumber = ProviderProjectNumber(config.projectId)

(***************************************************************************)
(* The percentages reported inside a step (checked under SpecPoll)         *)
(***************************************************************************)

\* C39: within one run of install(), the percentages passed to the progress
\* callback form a non-decreasing sequence within 0..100, over the
\* step-start, step-completion, skipped-step and intermediate
\* poll-checkpoint reports of all steps.
C39_ProgressNeverDecreases ==
    /\ \A i \in 1..Len(reported) : reported[i] \in 0..100
    /\ \A i \in 1..(Len(reported) - 1) : reported[i] <= reported[i + 1]

(***************************************************************************)
(* SpecKeys: one call of generateAPIKeys (gcp-installer.ts:1659-1983).     *)
(* The waits and the managed-service check that precede the lookup (lines  *)
(* 1666-1750) change none of the call's variables: the check of a retry is *)
(* made inside a try whose catch logs the error.                           *)
(***************************************************************************)

\* The lookups the model follows before it stops extending a behaviour
MaxLookups == 7

\* `let retries = 5` (line 1754)
lookupAttempts == 5

\* What the read of the API answers to the lookup: an error, an API without
\* managedService, an API with it
LookupAnswers == {"error", "noName", "name"}

\* What the list of the keys answers, and what the read of a key's string
\* answers
ListAnswers == {"error", "none", "existing"}

KeyStringAnswers == {"error", "keyString", "noKeyString"}

\* What the creation call answers: an error, an operation to poll, a key
\* that carries its string, a response with neither
CreateAnswers == {"error", "operation", "keyString", "nothing"}

\* What a read of the operation answers: an error, an operation not done,
\* one done with an error, one done with the key string, one done without
OperationAnswers == {"error", "pending", "failed", "keyString", "noKeyString"}

InitKeys ==
    /\ CallParked /\ InstallParked /\ PolicyParked /\ PrereqParked /\ PayloadParked
    /\ CreateParked /\ RerunParked /\ PollParked /\ EarlyParked /\ TokenParked
    /\ keyPc = "lookup"
    /\ regenerate \in BOOLEAN
    /\ lookups = 0
    /\ lookupRetries = lookupAttempts
    /\ managedServiceName = ""
    /\ pollAttempts = 0
    /\ keyReturn = Null

KeyReturns(value) ==
    /\ keyPc' = "returned"
    /\ keyReturn' = value

\* The key and its name, as lines 1803, 1892-1895 and 1947-1950 return them
KeyCreated == [apiKey |-> ProviderApiKey, apiKeyId |-> ProviderApiKeyName]

\* generateAPIKeys, lines 1952-1972: the polls are over and no key string
\* was found
AfterPolls(name) ==
    IF Truthy(name)
    THEN [apiKey |-> Null,
          apiKeyError |-> "API key creation timed out. This usually means the API Gateway is still initializing."]
    ELSE KeyFailure(
            "API key creation is taking longer than expected (>5 minutes). The key may still be creating in the background. Please wait a few more minutes and try again, or create the key manually in the Google Cloud Console.")

\* generateAPIKeys, line 1755: the condition of the while loop
LookupGoesOn == lookupRetries > 0 /\ ~Truthy(managedServiceName)

\* generateAPIKeys, lines 1755-1780: one pass of the while loop.  retries is
\* decremented in the catch alone.
LookupManagedService(answer) ==
    /\ keyPc = "lookup" /\ LookupGoesOn
    /\ lookups < MaxLookups
    /\ lookups' = lookups + 1
    /\ managedServiceName' =
         CASE answer = "name" -> ProviderManagedService
           [] answer = "noName" -> UNDEFINED
           [] OTHER -> managedServiceName
    /\ lookupRetries' = IF answer = "error" THEN lookupRetries - 1 ELSE lookupRetries
    /\ UNCHANGED <<keyPc, regenerate, pollAttempts, keyReturn>>

\* generateAPIKeys, lines 1782-1818: the loop is left; the keys are listed
\* and the key of this name, when there is one, is read or deleted
CheckExistingKey(listed, keyString) ==
    /\ keyPc = "lookup" /\ ~LookupGoesOn
    /\ IF listed = "existing" /\ ~regenerate
       THEN CASE keyString = "keyString" -> KeyReturns(KeyCreated)
              [] keyString = "noKeyString" ->
                    KeyReturns([apiKey |-> UNDEFINED,
                                apiKeyId |-> ProviderApiKeyName])
              [] OTHER -> keyPc' = "create" /\ keyReturn' = keyReturn
       ELSE keyPc' = "create" /\ keyReturn' = keyReturn
    /\ UNCHANGED <<regenerate, lookups, lookupRetries, managedServiceName,
                   pollAttempts>>

\* generateAPIKeys, lines 1820-1853 and 1943-1982: the creation call
CreateKey(answer) ==
    /\ keyPc = "create"
    /\ CASE answer = "operation" -> keyPc' = "poll" /\ keyReturn' = keyReturn
         [] answer = "keyString" -> KeyReturns(KeyCreated)
         [] answer = "nothing" -> KeyReturns(AfterPolls(managedServiceName))
         [] OTHER -> KeyReturns(KeyFailure(GcpErrorMessage("403", "Forbidden")))
    /\ UNCHANGED <<regenerate, lookups, lookupRetries, managedServiceName,
                   pollAttempts>>

\* generateAPIKeys, lines 1858-1941: one pass of the poll
PollKeyOperation(answer) ==
    /\ keyPc = "poll" /\ pollAttempts < maxPollAttempts
    /\ pollAttempts' = pollAttempts + 1
    /\ CASE answer = "keyString" -> KeyReturns(KeyCreated)
         [] answer = "failed" ->
                KeyReturns(KeyFailure("API key creation failed: {\"code\":13}"))
         [] answer = "noKeyString" ->
                KeyReturns(KeyFailure(
                    "API key creation completed but keyString not found in response"))
         [] OTHER -> keyPc' = "poll" /\ keyReturn' = keyReturn
    /\ UNCHANGED <<regenerate, lookups, lookupRetries, managedServiceName>>

\* generateAPIKeys, lines 1858 and 1943-1972: the polls are spent; the
\* creation call answered the operation's name alone
PollsSpent ==
    /\ keyPc = "poll" /\ pollAttempts >= maxPollAttempts
    /\ KeyReturns(AfterPolls(managedServiceName))
    /\ UNCHANGED <<regenerate, lookups, lookupRetries, managedServiceName,
                   pollAttempts>>

NextKeys ==
    /\ \/ \E a \in LookupAnswers : LookupManagedService(a)
       \/ \E l \in ListAnswers, k \in KeyStringAnswers : CheckExistingKey(l, k)
       \/ \E a \in CreateAnswers : CreateKey(a)
       \/ \E a \in OperationAnswers : PollKeyOperation(a)
       \/ PollsSpent
    /\ UNCHANGED <<callVars, installVars, policyVars, prereqVars, payloadVars,
                   createVars, rerunVars, pollVars, earlyVars, tokenVars>>

SpecKeys == InitKeys /\ [][NextKeys]_vars

\* C35: generateAPIKeys always terminates: its managed-service-name lookup
\* makes at most 5 lookups, for every sequence of provider answers (errors,
\* or successful answers that carry no managed service name), and then
\* proceeds, creating an unrestricted key when no name was obtained.
C35_AtMostFiveLookups == lookups <= lookupAttempts

\* C37: generateAPIKeys never raises: every failure to look up, create or
\* read the key is returned as a result with apiKey = null and an
\* apiKeyError text; a call that returns either carries the key or carries
\* apiKey = null with the text.
C37_FailureIsNullWithText ==
    keyPc = "returned" =>
        \/ /\ "apiKeyError" \in DOMAIN keyReturn
           /\ keyReturn.apiKey = Null
           /\ Len(keyReturn.apiKeyError) > 0
        \/ keyReturn.apiKey = ProviderApiKey

====
